---------------------------- MODULE Spec2Model ----------------------------
(***************************************************************************)
(* Model of the backtest core of funding_interval_arb:                     *)
(*   backtest/trade_direction.py  TradeDirectionDeterminer                 *)
(*   backtest/pnl_calculator.py   PnLCalculator                            *)
(*   backtest/backtest_engine.py  TradeRecord, BacktestEngine              *)
(*                                                                         *)
(* Python floats are modelled as exact rationals [n |-> num, d |-> den]    *)
(* in lowest terms with d > 0: the arithmetic is the code's, IEEE-754      *)
(* rounding is abstracted away.  A float division by zero raises           *)
(* ZeroDivisionError, as in Python.  A raised exception is the record      *)
(* [exc |-> <type>]; Python's None is the record NoneVal.                  *)
(***************************************************************************)
EXTENDS Integers, Sequences, FiniteSets, TLC

VARIABLES
    initial_capital,   \* BacktestEngine.initial_capital
    config,            \* BacktestEngine.config (BacktestConfig: the two fees)
    trades,            \* BacktestEngine.trades
    cumulative_pnl,    \* BacktestEngine.cumulative_pnl
    portfolio_value,   \* BacktestEngine.portfolio_value
    equity_curve,      \* BacktestEngine.equity_curve
    opportunities,     \* run_backtest's argument `opportunities`
    i,                 \* run_backtest: number of loop iterations completed
    failed_trades,     \* run_backtest's local failed_trades
    pc,                \* "idle" (no call active) or "loop" (inside run_backtest)
    calls_on_engine,   \* run_backtest calls made on this engine object since its __init__
    results,           \* history: what each completed run_backtest call returned
    call,              \* the last direct call of a pure function (specification SpecPnL)
    gather,            \* fetch_all_klines: its tasks, semaphores, results and klines_dict
    retry              \* fetch_with_retry: its attempt, the answers it got, its return value

vars == <<initial_capital, config, trades, cumulative_pnl, portfolio_value,
          equity_curve, opportunities, i, failed_trades, pc, calls_on_engine, results, call,
          gather, retry>>

engine_vars == <<initial_capital, config, trades, cumulative_pnl, portfolio_value,
                 equity_curve, opportunities, i, failed_trades, pc, calls_on_engine, results>>

-----------------------------------------------------------------------------
(* Bounds of the model. *)

\* longest opportunity list handed to run_backtest
MaxOpps == 2

\* number of run_backtest calls in one behaviour
MaxCalls == 2

-----------------------------------------------------------------------------
(* Float arithmetic, as exact rationals. *)

RECURSIVE GCD(_, _)
GCD(a, b) == IF b = 0 THEN a ELSE GCD(b, a % b)

IntAbs(x) == IF x < 0 THEN -x ELSE x

\* the float n/d, d # 0
Float(n, d) ==
    LET g == GCD(IntAbs(n), IntAbs(d))
        s == IF d < 0 THEN -1 ELSE 1
    IN  [n |-> (s * n) \div g, d |-> IntAbs(d) \div g]

Zero == Float(0, 1)

FAdd(a, b) == Float(a.n * b.d + b.n * a.d, a.d * b.d)

FNeg(a) == [n |-> -a.n, d |-> a.d]

FSub(a, b) == FAdd(a, FNeg(b))

FMul(a, b) == Float(a.n * b.n, a.d * b.d)

\* a / b for b # 0; the callers model the ZeroDivisionError of b = 0
FDiv(a, b) == Float(a.n * b.d, a.d * b.n)

FAbs(a) == [n |-> IntAbs(a.n), d |-> a.d]

FLt(a, b) == a.n * b.d < b.n * a.d

FLe(a, b) == a.n * b.d <= b.n * a.d

NoneVal == [none |-> TRUE]

Raise(e) == [exc |-> e]

Raised(r) == "exc" \in DOMAIN r

-----------------------------------------------------------------------------
(* trade_direction.py *)

LONG_BYBIT_SHORT_BINANCE == "long_bybit_short_binance"
SHORT_BYBIT_LONG_BINANCE == "short_bybit_long_binance"
LONG_BINANCE_SHORT_BYBIT == "long_binance_short_bybit"
SHORT_BINANCE_LONG_BYBIT == "short_binance_long_bybit"

TradeDirection == {LONG_BYBIT_SHORT_BINANCE, SHORT_BYBIT_LONG_BINANCE,
                   LONG_BINANCE_SHORT_BYBIT, SHORT_BINANCE_LONG_BYBIT}

\* determine_direction that tests only the first flag of each case
determine_direction_one_flag(bybit_pay, binance_pay, bybit_rate, binance_rate) ==
    IF bybit_pay
    THEN IF FLt(bybit_rate, Zero)
         THEN [direction |-> LONG_BYBIT_SHORT_BINANCE, recv |-> "bybit", pay |-> "binance"]
         ELSE [direction |-> SHORT_BYBIT_LONG_BINANCE, recv |-> "binance", pay |-> "bybit"]
    ELSE IF binance_pay
    THEN IF FLt(binance_rate, Zero)
         THEN [direction |-> LONG_BINANCE_SHORT_BYBIT, recv |-> "binance", pay |-> "bybit"]
         ELSE [direction |-> SHORT_BINANCE_LONG_BYBIT, recv |-> "bybit", pay |-> "binance"]
    ELSE Raise("ValueError")

\* determine_direction with a rate of 0 taken as "longs receive" (<= for <)
determine_direction_zero_long(bybit_pay, binance_pay, bybit_rate, binance_rate) ==
    IF bybit_pay /\ ~binance_pay
    THEN IF FLe(bybit_rate, Zero)
         THEN [direction |-> LONG_BYBIT_SHORT_BINANCE, recv |-> "bybit", pay |-> "binance"]
         ELSE [direction |-> SHORT_BYBIT_LONG_BINANCE, recv |-> "binance", pay |-> "bybit"]
    ELSE IF binance_pay /\ ~bybit_pay
    THEN IF FLe(binance_rate, Zero)
         THEN [direction |-> LONG_BINANCE_SHORT_BYBIT, recv |-> "binance", pay |-> "bybit"]
         ELSE [direction |-> SHORT_BINANCE_LONG_BYBIT, recv |-> "bybit", pay |-> "binance"]
    ELSE Raise("ValueError")

determine_direction(bybit_pay, binance_pay, bybit_rate, binance_rate) ==
    IF bybit_pay /\ ~binance_pay
    THEN IF FLt(bybit_rate, Zero)
         THEN [direction |-> LONG_BYBIT_SHORT_BINANCE, recv |-> "bybit", pay |-> "binance"]
         ELSE [direction |-> SHORT_BYBIT_LONG_BINANCE, recv |-> "binance", pay |-> "bybit"]
    ELSE IF binance_pay /\ ~bybit_pay
    THEN IF FLt(binance_rate, Zero)
         THEN [direction |-> LONG_BINANCE_SHORT_BYBIT, recv |-> "binance", pay |-> "bybit"]
         ELSE [direction |-> SHORT_BINANCE_LONG_BYBIT, recv |-> "bybit", pay |-> "binance"]
    ELSE Raise("ValueError")

-----------------------------------------------------------------------------
(* pnl_calculator.py *)

\* (exit - entry) / entry, the relative move of a leg held long
LongLeg(entry, exit) == FDiv(FSub(exit, entry), entry)

\* -(exit - entry) / entry, the relative move of a leg held short
ShortLeg(entry, exit) == FDiv(FNeg(FSub(exit, entry)), entry)

\* calculate_price_pnl whose SHORT_BINANCE_LONG_BYBIT branch repeats the legs of LONG_BINANCE_SHORT_BYBIT
calculate_price_pnl_copied_branch(direction, vwap_entry_bn, vwap_exit_bn, vwap_entry_by, vwap_exit_by, position_size) ==
    IF direction \notin TradeDirection THEN Raise("ValueError")
    ELSE IF vwap_entry_by = Zero \/ vwap_entry_bn = Zero THEN Raise("ZeroDivisionError")
    ELSE IF direction = LONG_BYBIT_SHORT_BINANCE
    THEN FMul(position_size, FAdd(LongLeg(vwap_entry_by, vwap_exit_by),
                                  ShortLeg(vwap_entry_bn, vwap_exit_bn)))
    ELSE IF direction = SHORT_BYBIT_LONG_BINANCE
    THEN FMul(position_size, FAdd(ShortLeg(vwap_entry_by, vwap_exit_by),
                                  LongLeg(vwap_entry_bn, vwap_exit_bn)))
    ELSE FMul(position_size, FAdd(LongLeg(vwap_entry_bn, vwap_exit_bn),
                                  ShortLeg(vwap_entry_by, vwap_exit_by)))

\* calculate_price_pnl whose SHORT_BYBIT_LONG_BINANCE branch holds both legs long
calculate_price_pnl_both_long(direction, vwap_entry_bn, vwap_exit_bn, vwap_entry_by, vwap_exit_by, position_size) ==
    IF direction \notin TradeDirection THEN Raise("ValueError")
    ELSE IF vwap_entry_by = Zero \/ vwap_entry_bn = Zero THEN Raise("ZeroDivisionError")
    ELSE IF direction = LONG_BYBIT_SHORT_BINANCE
    THEN FMul(position_size, FAdd(LongLeg(vwap_entry_by, vwap_exit_by),
                                  ShortLeg(vwap_entry_bn, vwap_exit_bn)))
    ELSE IF direction = SHORT_BYBIT_LONG_BINANCE
    THEN FMul(position_size, FAdd(LongLeg(vwap_entry_by, vwap_exit_by),
                                  LongLeg(vwap_entry_bn, vwap_exit_bn)))
    ELSE IF direction = LONG_BINANCE_SHORT_BYBIT
    THEN FMul(position_size, FAdd(LongLeg(vwap_entry_bn, vwap_exit_bn),
                                  ShortLeg(vwap_entry_by, vwap_exit_by)))
    ELSE FMul(position_size, FAdd(ShortLeg(vwap_entry_bn, vwap_exit_bn),
                                  LongLeg(vwap_entry_by, vwap_exit_by)))

calculate_price_pnl(direction, vwap_entry_bn, vwap_exit_bn, vwap_entry_by, vwap_exit_by, position_size) ==
    IF direction \notin TradeDirection THEN Raise("ValueError")
    ELSE IF vwap_entry_by = Zero \/ vwap_entry_bn = Zero THEN Raise("ZeroDivisionError")
    ELSE IF direction = LONG_BYBIT_SHORT_BINANCE
    THEN FMul(position_size, FAdd(LongLeg(vwap_entry_by, vwap_exit_by),
                                  ShortLeg(vwap_entry_bn, vwap_exit_bn)))
    ELSE IF direction = SHORT_BYBIT_LONG_BINANCE
    THEN FMul(position_size, FAdd(ShortLeg(vwap_entry_by, vwap_exit_by),
                                  LongLeg(vwap_entry_bn, vwap_exit_bn)))
    ELSE IF direction = LONG_BINANCE_SHORT_BYBIT
    THEN FMul(position_size, FAdd(LongLeg(vwap_entry_bn, vwap_exit_bn),
                                  ShortLeg(vwap_entry_by, vwap_exit_by)))
    ELSE FMul(position_size, FAdd(ShortLeg(vwap_entry_bn, vwap_exit_bn),
                                  LongLeg(vwap_entry_by, vwap_exit_by)))

\* calculate_funding_pnl that takes bybit's rate whenever the direction names bybit first
calculate_funding_pnl_wrong_exchange(direction, binance_rate, bybit_rate, position_size) ==
    IF direction = LONG_BYBIT_SHORT_BINANCE
    THEN FMul(position_size, FAbs(bybit_rate))
    ELSE IF direction = SHORT_BYBIT_LONG_BINANCE
    THEN FMul(position_size, FAbs(bybit_rate))
    ELSE IF direction = LONG_BINANCE_SHORT_BYBIT
    THEN FMul(position_size, FAbs(binance_rate))
    ELSE IF direction = SHORT_BINANCE_LONG_BYBIT
    THEN FMul(position_size, FAbs(bybit_rate))
    ELSE Raise("ValueError")

calculate_funding_pnl(direction, binance_rate, bybit_rate, position_size) ==
    IF direction = LONG_BYBIT_SHORT_BINANCE
    THEN FMul(position_size, FAbs(bybit_rate))
    ELSE IF direction = SHORT_BYBIT_LONG_BINANCE
    THEN FMul(position_size, FAbs(binance_rate))
    ELSE IF direction = LONG_BINANCE_SHORT_BYBIT
    THEN FMul(position_size, FAbs(binance_rate))
    ELSE IF direction = SHORT_BINANCE_LONG_BYBIT
    THEN FMul(position_size, FAbs(bybit_rate))
    ELSE Raise("ValueError")

\* calculate_fees with the exit charged at the maker rate
calculate_fees_maker_exit(position_size, cfg) ==
    [entry_fee |-> FMul(FMul(position_size, cfg.taker_fee), Float(2, 1)),
     exit_fee  |-> FMul(FMul(position_size, cfg.maker_fee), Float(2, 1))]

\* (entry_fee, exit_fee)
calculate_fees(position_size, cfg) ==
    [entry_fee |-> FMul(FMul(position_size, cfg.taker_fee), Float(2, 1)),
     exit_fee  |-> FMul(FMul(position_size, cfg.taker_fee), Float(2, 1))]

\* calculate_pnl with the percentage taken of one leg's size instead of both legs'
calculate_pnl_pct_of_one_leg(direction, vwap_entry_bn, vwap_exit_bn, vwap_entry_by, vwap_exit_by, binance_rate, bybit_rate, position_size, cfg) ==
    LET price_pnl == calculate_price_pnl(direction, vwap_entry_bn, vwap_exit_bn,
                                         vwap_entry_by, vwap_exit_by, position_size)
        funding_pnl == calculate_funding_pnl(direction, binance_rate, bybit_rate,
                                             position_size)
        fees == calculate_fees(position_size, cfg)
        total_fees == FAdd(fees.entry_fee, fees.exit_fee)
        net_pnl == FSub(FAdd(price_pnl, funding_pnl), total_fees)
        total_capital == position_size
    IN  IF Raised(price_pnl) THEN price_pnl
        ELSE IF Raised(funding_pnl) THEN funding_pnl
        ELSE [price_pnl   |-> price_pnl,
              funding_pnl |-> funding_pnl,
              entry_fee   |-> fees.entry_fee,
              exit_fee    |-> fees.exit_fee,
              total_fees  |-> total_fees,
              net_pnl     |-> net_pnl,
              pnl_pct     |-> IF FLt(Zero, total_capital)
                              THEN FMul(FDiv(net_pnl, total_capital), Float(100, 1))
                              ELSE Zero]

calculate_pnl(direction, vwap_entry_bn, vwap_exit_bn, vwap_entry_by, vwap_exit_by, binance_rate, bybit_rate, position_size, cfg) ==
    LET price_pnl == calculate_price_pnl(direction, vwap_entry_bn, vwap_exit_bn,
                                         vwap_entry_by, vwap_exit_by, position_size)
        funding_pnl == calculate_funding_pnl(direction, binance_rate, bybit_rate,
                                             position_size)
        fees == calculate_fees(position_size, cfg)
        total_fees == FAdd(fees.entry_fee, fees.exit_fee)
        net_pnl == FSub(FAdd(price_pnl, funding_pnl), total_fees)
        total_capital == FMul(Float(2, 1), position_size)
    IN  IF Raised(price_pnl) THEN price_pnl
        ELSE IF Raised(funding_pnl) THEN funding_pnl
        ELSE [price_pnl   |-> price_pnl,
              funding_pnl |-> funding_pnl,
              entry_fee   |-> fees.entry_fee,
              exit_fee    |-> fees.exit_fee,
              total_fees  |-> total_fees,
              net_pnl     |-> net_pnl,
              pnl_pct     |-> IF FLt(Zero, total_capital)
                              THEN FMul(FDiv(net_pnl, total_capital), Float(100, 1))
                              ELSE Zero]

-----------------------------------------------------------------------------
(* vwap_calculator.py.  A klines DataFrame is the record [rows |-> the       *)
(* sequence of its rows], each row a candle [timestamp, high, low, close,    *)
(* volume] with an int64 timestamp in milliseconds and float prices and      *)
(* volume; a dict is a function on its keys.  Times are kept in              *)
(* milliseconds: pd.Timestamp(ms, unit='ms') and pd.Timedelta(minutes=w)     *)
(* are whole milliseconds, so `.value // 1_000_000` gives them back exactly. *)

Candle(ts, high, low, close, volume) ==
    [timestamp |-> ts, high |-> high, low |-> low, close |-> close, volume |-> volume]

DataFrame(rows) == [rows |-> rows]

\* Series.sum() of a column of floats
RECURSIVE FSum(_)
FSum(column) == IF column = <<>> THEN Zero ELSE FAdd(Head(column), FSum(Tail(column)))

\* milliseconds of pd.Timedelta(minutes = 1)
MsPerMinute == 60000

\* the default of calculate_vwap's min_required_candles
DefaultMinCandles == 3

\* calculate_vwap whose window excludes its end (ts_ms < end_ms)
calculate_vwap_open_end(klines_df, start_ms, end_ms, min_required_candles) ==
    LET InWindow(c) == c.timestamp >= start_ms /\ c.timestamp < end_ms
        window_data == SelectSeq(klines_df.rows, InWindow)
        typical_price == [k \in DOMAIN window_data |->
                            FDiv(FAdd(FAdd(window_data[k].high, window_data[k].low),
                                      window_data[k].close), Float(3, 1))]
        numerator == FSum([k \in DOMAIN window_data |->
                             FMul(typical_price[k], window_data[k].volume)])
        denominator == FSum([k \in DOMAIN window_data |-> window_data[k].volume])
    IN  IF Len(window_data) < min_required_candles THEN NoneVal
        ELSE IF denominator = Zero THEN NoneVal
        ELSE FDiv(numerator, denominator)

\* calculate_vwap with the typical price taken as (high + low + close) / 2
calculate_vwap_half_typical(klines_df, start_ms, end_ms, min_required_candles) ==
    LET InWindow(c) == c.timestamp >= start_ms /\ c.timestamp <= end_ms
        window_data == SelectSeq(klines_df.rows, InWindow)
        typical_price == [k \in DOMAIN window_data |->
                            FDiv(FAdd(FAdd(window_data[k].high, window_data[k].low),
                                      window_data[k].close), Float(2, 1))]
        numerator == FSum([k \in DOMAIN window_data |->
                             FMul(typical_price[k], window_data[k].volume)])
        denominator == FSum([k \in DOMAIN window_data |-> window_data[k].volume])
    IN  IF Len(window_data) < min_required_candles THEN NoneVal
        ELSE IF denominator = Zero THEN NoneVal
        ELSE FDiv(numerator, denominator)

\* the VWAP of the rows with start_ms <= timestamp <= end_ms, or None
calculate_vwap(klines_df, start_ms, end_ms, min_required_candles) ==
    LET InWindow(c) == c.timestamp >= start_ms /\ c.timestamp <= end_ms
        window_data == SelectSeq(klines_df.rows, InWindow)
        typical_price == [k \in DOMAIN window_data |->
                            FDiv(FAdd(FAdd(window_data[k].high, window_data[k].low),
                                      window_data[k].close), Float(3, 1))]
        numerator == FSum([k \in DOMAIN window_data |->
                             FMul(typical_price[k], window_data[k].volume)])
        denominator == FSum([k \in DOMAIN window_data |-> window_data[k].volume])
    IN  IF Len(window_data) < min_required_candles THEN NoneVal
        ELSE IF denominator = Zero THEN NoneVal
        ELSE FDiv(numerator, denominator)

\* the tuple calculate_entry_exit_vwap returns when it gives up
NoVwaps ==
    [vwap_entry_bn |-> NoneVal, vwap_entry_by |-> NoneVal,
     vwap_exit_bn |-> NoneVal, vwap_exit_by |-> NoneVal, is_valid |-> FALSE]

\* klines_dict has no usable DataFrame for the exchange: no key, None or no rows
NoKlines(klines_dict, exchange) ==
    \/ exchange \notin DOMAIN klines_dict
    \/ klines_dict[exchange] = NoneVal
    \/ Len(klines_dict[exchange].rows) = 0

\* calculate_entry_exit_vwap that reads binance's klines for both exchanges
calculate_entry_exit_vwap_one_source(opportunity, klines_dict, vwap_window_minutes) ==
    IF NoKlines(klines_dict, "binance") THEN NoVwaps
    ELSE IF NoKlines(klines_dict, "bybit") THEN NoVwaps
    ELSE LET timestamp == opportunity.timestamp
             entry_start == timestamp - vwap_window_minutes * MsPerMinute
             entry_end == timestamp
             exit_start == timestamp
             exit_end == timestamp + vwap_window_minutes * MsPerMinute
             entry_vwap(exchange) ==
                 calculate_vwap(klines_dict["binance"], entry_start, entry_end, DefaultMinCandles)
             exit_vwap(exchange) ==
                 calculate_vwap(klines_dict["binance"], exit_start, exit_end, DefaultMinCandles)
         IN  [vwap_entry_bn |-> entry_vwap("binance"),
              vwap_entry_by |-> entry_vwap("bybit"),
              vwap_exit_bn  |-> exit_vwap("binance"),
              vwap_exit_by  |-> exit_vwap("bybit"),
              is_valid      |-> /\ entry_vwap("binance") # NoneVal
                                /\ exit_vwap("binance") # NoneVal
                                /\ entry_vwap("bybit") # NoneVal
                                /\ exit_vwap("bybit") # NoneVal]

\* (vwap_entry_bn, vwap_entry_by, vwap_exit_bn, vwap_exit_by, is_valid); the
\* opportunity's timestamp is the int the loader computed, never None
calculate_entry_exit_vwap(opportunity, klines_dict, vwap_window_minutes) ==
    IF NoKlines(klines_dict, "binance") THEN NoVwaps
    ELSE IF NoKlines(klines_dict, "bybit") THEN NoVwaps
    ELSE LET timestamp == opportunity.timestamp
             entry_start == timestamp - vwap_window_minutes * MsPerMinute
             entry_end == timestamp
             exit_start == timestamp
             exit_end == timestamp + vwap_window_minutes * MsPerMinute
             entry_vwap(exchange) ==
                 calculate_vwap(klines_dict[exchange], entry_start, entry_end, DefaultMinCandles)
             exit_vwap(exchange) ==
                 calculate_vwap(klines_dict[exchange], exit_start, exit_end, DefaultMinCandles)
         IN  [vwap_entry_bn |-> entry_vwap("binance"),
              vwap_entry_by |-> entry_vwap("bybit"),
              vwap_exit_bn  |-> exit_vwap("binance"),
              vwap_exit_by  |-> exit_vwap("bybit"),
              is_valid      |-> /\ entry_vwap("binance") # NoneVal
                                /\ exit_vwap("binance") # NoneVal
                                /\ entry_vwap("bybit") # NoneVal
                                /\ exit_vwap("bybit") # NoneVal]

-----------------------------------------------------------------------------
(* vwap_integrator.py *)

\* the except branch of the integrator's loop: the opportunity is marked invalid
MarkInvalid(opp_dict) == [opp_dict EXCEPT !.vwap_valid = FALSE]

\* klines_dict.get(symbol, {})
SymbolKlines(klines_dict, symbol) ==
    IF symbol \in DOMAIN klines_dict THEN klines_dict[symbol] ELSE [e \in {} |-> NoneVal]

\* one iteration of calculate_vwaps_for_all_opportunities: the opportunity
\* dict appended to updated_opportunities
integrate_opportunity(opp_dict, klines_dict, vwap_window_minutes) ==
    IF opp_dict.symbol = "" THEN MarkInvalid(opp_dict)
    ELSE IF DOMAIN SymbolKlines(klines_dict, opp_dict.symbol) = {} THEN MarkInvalid(opp_dict)
    ELSE LET r == calculate_entry_exit_vwap(opp_dict, SymbolKlines(klines_dict, opp_dict.symbol),
                                            vwap_window_minutes)
         IN  [opp_dict EXCEPT !.vwap_entry_binance = r.vwap_entry_bn,
                              !.vwap_entry_bybit = r.vwap_entry_by,
                              !.vwap_exit_binance = r.vwap_exit_bn,
                              !.vwap_exit_bybit = r.vwap_exit_by,
                              !.vwap_valid = r.is_valid]

\* the conditions under which the try block raises ValueError before any
\* VWAP is computed: no symbol, or klines_dict.get(symbol, {}) is empty
IntegrationRaises(opp_dict, klines_dict) ==
    \/ opp_dict.symbol = ""
    \/ DOMAIN SymbolKlines(klines_dict, opp_dict.symbol) = {}

\* the state of the integrator's loop before its first iteration
IntegratorStart == [updated_opportunities |-> <<>>, success_count |-> 0, failure_count |-> 0]

\* a loop body whose except branch drops the opportunity instead of appending it
IntegratorStep_drops_failed(acc, opp, klines_dict, vwap_window_minutes) ==
    IF IntegrationRaises(opp, klines_dict)
    THEN [acc EXCEPT !.failure_count = @ + 1]
    ELSE LET opp_dict == integrate_opportunity(opp, klines_dict, vwap_window_minutes)
         IN  IF opp_dict.vwap_valid
             THEN [acc EXCEPT !.success_count = @ + 1,
                              !.updated_opportunities = Append(@, opp_dict)]
             ELSE [acc EXCEPT !.failure_count = @ + 1,
                              !.updated_opportunities = Append(@, opp_dict)]

\* a loop body that reads the candles of the first symbol of klines_dict for
\* every opportunity
IntegratorStep_first_symbol(acc, opp, klines_dict, vwap_window_minutes) ==
    LET first == IF "BTCUSDT" \in DOMAIN klines_dict THEN "BTCUSDT" ELSE opp.symbol
        r == calculate_entry_exit_vwap(opp, SymbolKlines(klines_dict, first), vwap_window_minutes)
    IN  IF IntegrationRaises(opp, klines_dict)
        THEN [acc EXCEPT !.failure_count = @ + 1,
                         !.updated_opportunities = Append(@, MarkInvalid(opp))]
        ELSE LET opp_dict == [opp EXCEPT !.vwap_entry_binance = r.vwap_entry_bn,
                                         !.vwap_entry_bybit = r.vwap_entry_by,
                                         !.vwap_exit_binance = r.vwap_exit_bn,
                                         !.vwap_exit_bybit = r.vwap_exit_by,
                                         !.vwap_valid = r.is_valid]
             IN  IF r.is_valid
                 THEN [acc EXCEPT !.success_count = @ + 1,
                                  !.updated_opportunities = Append(@, opp_dict)]
                 ELSE [acc EXCEPT !.failure_count = @ + 1,
                                  !.updated_opportunities = Append(@, opp_dict)]

\* one iteration of the loop of calculate_vwaps_for_all_opportunities on the
\* counters and the output list (failure_reasons, a log aid, is left out)
IntegratorStep(acc, opp, klines_dict, vwap_window_minutes) ==
    IF IntegrationRaises(opp, klines_dict)
    THEN [acc EXCEPT !.failure_count = @ + 1,
                     !.updated_opportunities = Append(@, MarkInvalid(opp))]
    ELSE LET r == calculate_entry_exit_vwap(opp, SymbolKlines(klines_dict, opp.symbol),
                                            vwap_window_minutes)
             opp_dict == integrate_opportunity(opp, klines_dict, vwap_window_minutes)
         IN  IF r.is_valid
             THEN [acc EXCEPT !.success_count = @ + 1,
                              !.updated_opportunities = Append(@, opp_dict)]
             ELSE [acc EXCEPT !.failure_count = @ + 1,
                              !.updated_opportunities = Append(@, opp_dict)]

RECURSIVE IntegratorLoop(_, _, _, _)
\* the loop over enumerate(opportunities), from the state acc on
IntegratorLoop(acc, opps, klines_dict, vwap_window_minutes) ==
    IF opps = <<>> THEN acc
    ELSE IntegratorLoop(IntegratorStep(acc, Head(opps), klines_dict, vwap_window_minutes),
                        Tail(opps), klines_dict, vwap_window_minutes)

\* VWAPIntegrator.calculate_vwaps_for_all_opportunities: (updated_opportunities, stats)
calculate_vwaps_for_all_opportunities(opps, klines_dict, vwap_window_minutes) ==
    LET end == IntegratorLoop(IntegratorStart, opps, klines_dict, vwap_window_minutes)
    IN  [updated_opportunities |-> end.updated_opportunities,
         stats |-> [total        |-> Len(opps),
                    success      |-> end.success_count,
                    failure      |-> end.failure_count,
                    success_rate |-> IF opps # <<>>
                                     THEN FMul(Float(end.success_count, Len(opps)),
                                               Float(100, 1))
                                     ELSE Zero]]

-----------------------------------------------------------------------------
(* opportunity_loader.py *)

\* a row of df_all: a line of funding_rate_timeline_<symbol>.csv with its symbol
CsvRow(ts, sym, tradable) == [timestamp |-> ts, symbol |-> sym, tradable |-> tradable]

\* Opportunity(row, K, n_tradable_at_time), its other fields being copies of the row's
LoadedOpportunity(row, K, n_tradable_at_time) ==
    [timestamp |-> row.timestamp, symbol |-> row.symbol, K |-> K,
     n_tradable_at_time |-> n_tradable_at_time]

RECURSIVE SortedValues(_)
\* the keys of a groupby, ascending
SortedValues(S) ==
    IF S = {} THEN <<>>
    ELSE LET least == CHOOSE x \in S : \A y \in S : x <= y
         IN  <<least>> \o SortedValues(S \ {least})

\* df_tradable: the rows left by the filters on tradable, the time range, the
\* whitelist and the excluded symbols
TradableRows(df_all, cfg) ==
    LET Kept(row) ==
            /\ row.tradable
            /\ row.timestamp >= cfg.start_ms
            /\ row.timestamp <= cfg.end_ms
            /\ cfg.include_all \/ row.symbol \in cfg.symbol_whitelist
            /\ row.symbol \notin cfg.exclude_symbols
    IN  SelectSeq(df_all, Kept)

RECURSIVE GroupsToOpportunities(_, _, _)
\* the loop over df_tradable.groupby('timestamp') giving the whole capital
\* to every opportunity
GroupsToOpportunities_whole_capital(df_tradable, timestamps, cfg) ==
    IF timestamps = <<>> THEN <<>>
    ELSE LET InGroup(row) == row.timestamp = Head(timestamps)
             group == SelectSeq(df_tradable, InGroup)
             n_tradable == Len(group)
             K_per_symbol == cfg.initial_capital
         IN  [k \in DOMAIN group |-> LoadedOpportunity(group[k], K_per_symbol, n_tradable)]
                 \o GroupsToOpportunities(df_tradable, Tail(timestamps), cfg)

\* the loop over df_tradable.groupby('timestamp'): one Opportunity per row of
\* each group, with K = initial_capital / len(group)
GroupsToOpportunities(df_tradable, timestamps, cfg) ==
    IF timestamps = <<>> THEN <<>>
    ELSE LET InGroup(row) == row.timestamp = Head(timestamps)
             group == SelectSeq(df_tradable, InGroup)
             n_tradable == Len(group)
             K_per_symbol == FDiv(cfg.initial_capital, Float(n_tradable, 1))
         IN  [k \in DOMAIN group |-> LoadedOpportunity(group[k], K_per_symbol, n_tradable)]
                 \o GroupsToOpportunities(df_tradable, Tail(timestamps), cfg)

\* OpportunityLoader.load_tradable_opportunities, from the concatenated CSV rows on
load_tradable_opportunities(df_all, cfg) ==
    LET df_tradable == TradableRows(df_all, cfg)
    IN  GroupsToOpportunities(df_tradable,
                              SortedValues({df_tradable[k].timestamp : k \in DOMAIN df_tradable}),
                              cfg)

-----------------------------------------------------------------------------
(* kline_fetcher.py *)

\* an Optional[int] that is not None
Some(v) == [some |-> v]

\* a klines DataFrame by its timestamp column, ascending and without duplicates
Frame(timestamps) == DataFrame(SortedValues(timestamps))

\* the timestamp column of a DataFrame, or of None
Timestamps(df) == IF df = NoneVal THEN {} ELSE {df.rows[k] : k \in DOMAIN df.rows}

\* KlineFetcher._check_cache_coverage on the cache file's content (None: no file)
check_cache_coverage(cache, required_start_ms, required_end_ms) ==
    IF cache = NoneVal \/ Timestamps(cache) = {}
    THEN [is_complete |-> FALSE, df |-> NoneVal]
    ELSE LET cache_start == CHOOSE t \in Timestamps(cache) : \A u \in Timestamps(cache) : t <= u
             cache_end == CHOOSE t \in Timestamps(cache) : \A u \in Timestamps(cache) : t >= u
         IN  [is_complete |-> cache_start <= required_start_ms /\ cache_end >= required_end_ms,
              df |-> cache]

\* MIN_GAP_MS of _calculate_missing_periods
MIN_GAP_MS == 120000

\* KlineFetcher._calculate_missing_periods, listing_time_ms being
\* self.listing_times[symbol].get(exchange)
calculate_missing_periods(listing_time_ms, required_start_ms, required_end_ms, cached_start_ms, cached_end_ms) ==
    LET effective_start_ms ==
            IF listing_time_ms # NoneVal /\ required_start_ms < listing_time_ms.some
            THEN listing_time_ms.some ELSE required_start_ms
        before ==
            IF effective_start_ms < cached_start_ms.some
            THEN IF listing_time_ms # NoneVal /\ cached_start_ms.some - effective_start_ms > 0
                 THEN IF effective_start_ms <= listing_time_ms.some
                         /\ listing_time_ms.some <= cached_start_ms.some
                      THEN <<>>
                      ELSE <<[start |-> effective_start_ms, end |-> cached_start_ms.some,
                              type |-> "before"]>>
                 ELSE <<[start |-> effective_start_ms, end |-> cached_start_ms.some,
                         type |-> "before"]>>
            ELSE <<>>
        after ==
            IF required_end_ms > cached_end_ms.some
            THEN IF required_end_ms - cached_end_ms.some < MIN_GAP_MS
                 THEN <<>>
                 ELSE <<[start |-> cached_end_ms.some, end |-> required_end_ms, type |-> "after"]>>
            ELSE <<>>
    IN  IF cached_start_ms = NoneVal
        THEN <<[start |-> effective_start_ms, end |-> required_end_ms, type |-> "full"]>>
        ELSE before \o after

\* what _fetch_binance_klines_paginated returns for a period: every candle the
\* exchange has in it (`all`), only its first page (`part`: a later request
\* failed), or None (no request answered, or no candle in the period)
PaginatedFetch(exchange_candles, start_ms, end_ms, outcome) ==
    LET in_period == {t \in exchange_candles : t >= start_ms /\ t <= end_ms}
        first == CHOOSE t \in in_period : \A u \in in_period : t <= u
    IN  IF ~(start_ms < end_ms) \/ in_period = {} \/ outcome = "none" THEN NoneVal
        ELSE IF outcome = "part" THEN Frame({first})
        ELSE Frame(in_period)

\* the rows of a DataFrame with start_ms <= timestamp <= end_ms
RowsBetween(df, start_ms, end_ms) ==
    Frame({t \in Timestamps(df) : t >= start_ms /\ t <= end_ms})

\* KlineFetcher.fetch_klines_async: the returned DataFrame or None, and the
\* cache file it leaves; outcomes[period_type] is how the exchange answers
fetch_klines_async(cache, listing_time_ms, start_ms, end_ms, exchange_candles, outcomes) ==
    LET coverage == check_cache_coverage(cache, start_ms, end_ms)
        cached_df == coverage.df
        cached == Timestamps(cached_df)
        cached_start_ms ==
            IF cached_df # NoneVal
            THEN Some(CHOOSE t \in cached : \A u \in cached : t <= u) ELSE NoneVal
        cached_end_ms ==
            IF cached_df # NoneVal
            THEN Some(CHOOSE t \in cached : \A u \in cached : t >= u) ELSE NoneVal
        fetch_periods == calculate_missing_periods(listing_time_ms, start_ms, end_ms,
                                                   cached_start_ms, cached_end_ms)
        all_new_data ==
            UNION {Timestamps(PaginatedFetch(exchange_candles, fetch_periods[k].start,
                                             fetch_periods[k].end, outcomes[fetch_periods[k].type])) :
                   k \in DOMAIN fetch_periods}
        combined_df ==
            IF all_new_data # {} THEN Frame(cached \cup all_new_data) ELSE cached_df
    IN  IF coverage.is_complete
        THEN [ret |-> RowsBetween(cached_df, start_ms, end_ms), cache |-> cache]
        ELSE IF combined_df # NoneVal
        THEN [ret |-> RowsBetween(combined_df, start_ms, end_ms), cache |-> combined_df]
        ELSE [ret |-> NoneVal, cache |-> cache]

-----------------------------------------------------------------------------
(* backtest_engine.py *)

TradeRecord(opportunity, pnl_result) ==
    [timestamp   |-> opportunity.timestamp,
     symbol      |-> opportunity.symbol,
     K           |-> opportunity.K,
     direction   |-> pnl_result.direction,
     price_pnl   |-> pnl_result.price_pnl,
     funding_pnl |-> pnl_result.funding_pnl,
     entry_fee   |-> pnl_result.entry_fee,
     exit_fee    |-> pnl_result.exit_fee,
     total_fees  |-> pnl_result.total_fees,
     net_pnl     |-> pnl_result.net_pnl,
     pnl_pct     |-> pnl_result.pnl_pct]

\* execute_trade that refuses only a negative K (< for <=)
execute_trade_returns_zero_capital(opportunity, pnl_result) ==
    IF ~opportunity.vwap_valid THEN NoneVal
    ELSE IF FLt(opportunity.K, Zero) THEN NoneVal
    ELSE TradeRecord(opportunity, pnl_result)

\* execute_trade's return value: None for an opportunity it refuses
execute_trade_returns(opportunity, pnl_result) ==
    IF ~opportunity.vwap_valid THEN NoneVal
    ELSE IF FLe(opportunity.K, Zero) THEN NoneVal
    ELSE TradeRecord(opportunity, pnl_result)

\* execute_trade assigning the trade's net P&L to cumulative_pnl (= for +=)
execute_trade_updates_overwrites(trade) ==
    /\ cumulative_pnl' = trade.net_pnl
    /\ portfolio_value' = FAdd(initial_capital, cumulative_pnl')

\* execute_trade with the portfolio value computed before cumulative_pnl is updated
execute_trade_updates_stale(trade) ==
    /\ cumulative_pnl' = FAdd(cumulative_pnl, trade.net_pnl)
    /\ portfolio_value' = FAdd(initial_capital, cumulative_pnl)

\* execute_trade's update of the equity, made when it returns a trade
execute_trade_updates(trade) ==
    /\ cumulative_pnl' = FAdd(cumulative_pnl, trade.net_pnl)
    /\ portfolio_value' = FAdd(initial_capital, cumulative_pnl')

\* the four VWAP values the loop body checks against None
VwapValues(opportunity) ==
    {opportunity.vwap_entry_binance, opportunity.vwap_exit_binance,
     opportunity.vwap_entry_bybit, opportunity.vwap_exit_bybit}

\* the loop body pricing each leg at the whole allocated capital (K for K / 2)
price_opportunity_whole_capital(opportunity, cfg) ==
    LET d == determine_direction(opportunity.bybit_pay, opportunity.binance_pay,
                                 opportunity.bybit_rate, opportunity.binance_rate)
    IN  IF Raised(d) THEN d
        ELSE LET pnl_result == calculate_pnl(d.direction,
                                   opportunity.vwap_entry_binance, opportunity.vwap_exit_binance,
                                   opportunity.vwap_entry_bybit, opportunity.vwap_exit_bybit,
                                   opportunity.binance_rate, opportunity.bybit_rate,
                                   opportunity.K, cfg)
             IN  IF Raised(pnl_result) THEN pnl_result
                 ELSE [direction |-> d.direction] @@ pnl_result

\* determine_direction then calculate_pnl, as the loop body calls them:
\* the pnl_result with its 'direction' entry, or the exception raised
price_opportunity(opportunity, cfg) ==
    LET d == determine_direction(opportunity.bybit_pay, opportunity.binance_pay,
                                 opportunity.bybit_rate, opportunity.binance_rate)
    IN  IF Raised(d) THEN d
        ELSE LET pnl_result == calculate_pnl(d.direction,
                                   opportunity.vwap_entry_binance, opportunity.vwap_exit_binance,
                                   opportunity.vwap_entry_bybit, opportunity.vwap_exit_bybit,
                                   opportunity.binance_rate, opportunity.bybit_rate,
                                   FDiv(opportunity.K, Float(2, 1)), cfg)
             IN  IF Raised(pnl_result) THEN pnl_result
                 ELSE [direction |-> d.direction] @@ pnl_result

\* one iteration of run_backtest's loop up to execute_trade's return:
\* the trade to append, or None when the opportunity is counted as failed
loop_body(opportunity, cfg) ==
    IF ~opportunity.vwap_valid THEN NoneVal
    ELSE IF NoneVal \in VwapValues(opportunity) THEN NoneVal
    ELSE LET pnl_result == price_opportunity(opportunity, cfg)
         IN  IF Raised(pnl_result) THEN NoneVal
             ELSE execute_trade_returns(opportunity, pnl_result)

\* the equity point built before the trade is appended to self.trades
EquityPoint_before_append(opportunity) ==
    [timestamp       |-> opportunity.timestamp,
     cumulative_pnl  |-> cumulative_pnl',
     portfolio_value |-> portfolio_value',
     trades_count    |-> Len(trades)]

EquityPoint(opportunity) ==
    [timestamp       |-> opportunity.timestamp,
     cumulative_pnl  |-> cumulative_pnl',
     portfolio_value |-> portfolio_value',
     trades_count    |-> Len(trades')]

\* the return dict counting the opportunities processed as total_trades
ReturnValue_counts_opportunities ==
    [trades                |-> trades,
     equity_curve          |-> equity_curve,
     final_pnl             |-> cumulative_pnl,
     final_portfolio_value |-> portfolio_value,
     total_trades          |-> Len(opportunities),
     failed_trades         |-> failed_trades,
     return_pct            |-> IF FLt(Zero, initial_capital)
                               THEN FMul(FDiv(cumulative_pnl, initial_capital), Float(100, 1))
                               ELSE Zero]

\* the dict run_backtest returns
ReturnValue ==
    [trades                |-> trades,
     equity_curve          |-> equity_curve,
     final_pnl             |-> cumulative_pnl,
     final_portfolio_value |-> portfolio_value,
     total_trades          |-> Len(trades),
     failed_trades         |-> failed_trades,
     return_pct            |-> IF FLt(Zero, initial_capital)
                               THEN FMul(FDiv(cumulative_pnl, initial_capital), Float(100, 1))
                               ELSE Zero]

-----------------------------------------------------------------------------
(* backtest_analyzer.py *)

\* max() and min() of a non-empty list of floats
FMax(values) == CHOOSE v \in {values[k] : k \in DOMAIN values} : \A k \in DOMAIN values : FLe(values[k], v)

FMin(values) == CHOOSE v \in {values[k] : k \in DOMAIN values} : \A k \in DOMAIN values : FLe(v, values[k])

\* the dict calculate_metrics returns for an empty trade list
NoTradeMetrics ==
    [total_trades |-> 0, winning_trades |-> 0, losing_trades |-> 0, win_rate |-> Zero,
     total_pnl |-> Zero, avg_pnl |-> Zero, max_win |-> Zero, max_loss |-> Zero,
     sharpe_ratio |-> Zero, max_drawdown |-> Zero]

\* _calculate_max_drawdown: the largest fall below the running maximum of the
\* portfolio value, in percent (the portfolio values of the model are > 0)
calculate_max_drawdown(curve) ==
    IF curve = <<>> THEN Zero
    ELSE LET portfolio_values == [k \in DOMAIN curve |-> curve[k].portfolio_value]
             running_max == [k \in DOMAIN curve |-> FMax(SubSeq(portfolio_values, 1, k))]
             drawdown == [k \in DOMAIN curve |->
                             FDiv(FSub(portfolio_values[k], running_max[k]), running_max[k])]
         IN  FMul(FAbs(FMin(drawdown)), Float(100, 1))

\* _calculate_profit_factor; float('inf') is the record [inf |-> TRUE]
calculate_profit_factor(pnl_values) ==
    LET IsWin(p) == FLt(Zero, p)
        IsLoss(p) == FLt(p, Zero)
        wins == FSum(SelectSeq(pnl_values, IsWin))
        losses == FAbs(FSum(SelectSeq(pnl_values, IsLoss)))
    IN  IF losses = Zero
        THEN (IF FLt(Zero, wins) THEN [inf |-> TRUE] ELSE Zero)
        ELSE FDiv(wins, losses)

\* the Sharpe ratio np.mean / np.std * np.sqrt(252), kept as the mean and the
\* (population) variance it is computed from: the square roots are not rational
SharpeRatio(pnl_values) ==
    LET n == Float(Len(pnl_values), 1)
        mean == FDiv(FSum(pnl_values), n)
        variance == FDiv(FSum([k \in DOMAIN pnl_values |->
                                 FMul(FSub(pnl_values[k], mean), FSub(pnl_values[k], mean))]), n)
    IN  IF Len(pnl_values) > 1 /\ FLt(Zero, variance)
        THEN [mean |-> mean, variance |-> variance, periods |-> 252]
        ELSE Zero

\* BacktestAnalyzer.calculate_metrics(trades, equity_curve)
calculate_metrics(trade_list, curve) ==
    IF trade_list = <<>> THEN NoTradeMetrics
    ELSE LET pnl_values == [k \in DOMAIN trade_list |-> trade_list[k].net_pnl]
             total_pnl == FSum(pnl_values)
             winning_trades == Cardinality({k \in DOMAIN pnl_values : FLt(Zero, pnl_values[k])})
             losing_trades == Cardinality({k \in DOMAIN pnl_values : FLt(pnl_values[k], Zero)})
             win_rate == FDiv(Float(winning_trades, 1), Float(Len(trade_list), 1))
         IN  [total_trades   |-> Len(trade_list),
              winning_trades |-> winning_trades,
              losing_trades  |-> losing_trades,
              win_rate       |-> FMul(win_rate, Float(100, 1)),
              total_pnl      |-> total_pnl,
              avg_pnl        |-> FDiv(total_pnl, Float(Len(trade_list), 1)),
              max_win        |-> FMax(pnl_values),
              max_loss       |-> FMin(pnl_values),
              sharpe_ratio   |-> SharpeRatio(pnl_values),
              max_drawdown   |-> calculate_max_drawdown(curve),
              profit_factor  |-> calculate_profit_factor(pnl_values)]

-----------------------------------------------------------------------------
(* The inputs of the engine: opportunity dicts as Opportunity.to_dict and *)
(* the VWAP attachment build them.                                        *)

Opportunity(ts, sym, K, bybit_pay, binance_pay, bybit_rate, binance_rate, entry_bn, exit_bn, entry_by, exit_by, valid) ==
    [timestamp          |-> ts,
     symbol             |-> sym,
     K                  |-> K,
     bybit_pay          |-> bybit_pay,
     binance_pay        |-> binance_pay,
     bybit_rate         |-> bybit_rate,
     binance_rate       |-> binance_rate,
     vwap_entry_binance |-> entry_bn,
     vwap_exit_binance  |-> exit_bn,
     vwap_entry_bybit   |-> entry_by,
     vwap_exit_bybit    |-> exit_by,
     vwap_valid         |-> valid]

\* funding rates: -0.001 and 0.001
RatePairs == {<<Float(-1, 1000), Float(1, 1000)>>, <<Float(1, 1000), Float(-1, 1000)>>}

\* tradable opportunities: exactly one pay flag, four positive VWAPs, K > 0.
\* BTCUSDT at t = 1000 moves 100 -> 101 on binance and 50 -> 49.5 on bybit;
\* ETHUSDT at t = 2000 moves 20 -> 19 on binance and stays at 20 on bybit.
TradableOpps ==
    {Opportunity(1000, "BTCUSDT", Float(10000, 1), f[1], f[2], r[1], r[2],
                 Float(100, 1), Float(101, 1), Float(50, 1), Float(99, 2), TRUE) :
        f \in {<<TRUE, FALSE>>, <<FALSE, TRUE>>}, r \in RatePairs}
    \cup
    {Opportunity(2000, "ETHUSDT", Float(5000, 1), f[1], f[2], r[1], r[2],
                 Float(20, 1), Float(19, 1), Float(20, 1), Float(20, 1), TRUE) :
        f \in {<<TRUE, FALSE>>, <<FALSE, TRUE>>}, r \in RatePairs}

BaseOpp ==
    Opportunity(1000, "BTCUSDT", Float(10000, 1), TRUE, FALSE, Float(-1, 1000), Float(1, 1000),
                Float(100, 1), Float(101, 1), Float(50, 1), Float(99, 2), TRUE)

\* opportunities the engine has to refuse: BaseOpp with one or two defects
DefectiveOpps ==
    {[BaseOpp EXCEPT !.binance_pay = TRUE],
     [BaseOpp EXCEPT !.bybit_pay = FALSE],
     [BaseOpp EXCEPT !.vwap_valid = FALSE],
     [BaseOpp EXCEPT !.vwap_entry_bybit = NoneVal],
     [BaseOpp EXCEPT !.vwap_entry_binance = NoneVal, !.vwap_exit_binance = NoneVal,
                     !.vwap_entry_bybit = NoneVal, !.vwap_exit_bybit = NoneVal,
                     !.vwap_valid = FALSE],
     [BaseOpp EXCEPT !.vwap_entry_binance = Zero],
     [BaseOpp EXCEPT !.K = Zero],
     [BaseOpp EXCEPT !.K = Float(-5000, 1)],
     [BaseOpp EXCEPT !.binance_pay = TRUE, !.vwap_valid = FALSE],
     [BaseOpp EXCEPT !.bybit_pay = FALSE, !.K = Zero],
     [BaseOpp EXCEPT !.vwap_exit_binance = NoneVal, !.K = Zero]}

EngineOpps == TradableOpps \cup DefectiveOpps

RECURSIVE ListsUpTo(_, _)
ListsUpTo(S, n) ==
    IF n = 0 THEN {<<>>}
    ELSE LET shorter == ListsUpTo(S, n - 1)
         IN  shorter \cup {Append(l, x) : l \in {m \in shorter : Len(m) = n - 1}, x \in S}

\* initial_capital and the fees of the default configuration
InitialCapitals == {Float(100000, 1)}

Configs == {[maker_fee |-> Float(2, 10000), taker_fee |-> Float(4, 10000)]}

NoCall == [fn |-> "none"]

-----------------------------------------------------------------------------
(* The engine as a state machine. *)

\* __init__ with the trade log and the equity curve shared by all engine objects
BacktestEngineInit_shared_log(capital, cfg) ==
    /\ initial_capital' = capital
    /\ config' = cfg
    /\ trades' = trades
    /\ cumulative_pnl' = Zero
    /\ portfolio_value' = capital
    /\ equity_curve' = equity_curve
    /\ calls_on_engine' = 0

\* BacktestEngine.__init__
BacktestEngineInit(capital, cfg) ==
    /\ initial_capital' = capital
    /\ config' = cfg
    /\ trades' = <<>>
    /\ cumulative_pnl' = Zero
    /\ portfolio_value' = capital
    /\ equity_curve' = <<>>
    /\ calls_on_engine' = 0

Init ==
    /\ initial_capital \in InitialCapitals
    /\ config \in Configs
    /\ trades = <<>>
    /\ cumulative_pnl = Zero
    /\ portfolio_value = initial_capital
    /\ equity_curve = <<>>
    /\ calls_on_engine = 0
    /\ opportunities = <<>>
    /\ i = 0
    /\ failed_trades = 0
    /\ pc = "idle"
    /\ results = <<>>
    /\ call = NoCall
    /\ gather = [pc |-> "idle"]
    /\ retry = [pc |-> "idle"]

\* a new engine is constructed for another run, with the same capital and config
NewEngine ==
    /\ pc = "idle"
    /\ results # <<>>
    /\ Len(results) < MaxCalls
    /\ calls_on_engine > 0
    /\ BacktestEngineInit(initial_capital, config)
    /\ UNCHANGED <<opportunities, i, failed_trades, pc, results, call, gather, retry>>

\* the list without the opportunities the loop body refuses
WithoutRejected(opps, cfg) ==
    LET Accepts(opportunity) == loop_body(opportunity, cfg) # NoneVal
    IN  SelectSeq(opps, Accepts)

\* run_backtest is entered: the first call with any list, a later call with the
\* same list or, on a new engine, with that list less its refused opportunities
RunBacktest ==
    /\ pc = "idle"
    /\ Len(results) < MaxCalls
    /\ IF results = <<>>
       THEN opportunities' \in ListsUpTo(EngineOpps, MaxOpps)
       ELSE \/ opportunities' = opportunities
            \/ calls_on_engine = 0 /\ opportunities' = WithoutRejected(opportunities, config)
    /\ failed_trades' = 0
    /\ i' = 0
    /\ pc' = "loop"
    /\ calls_on_engine' = calls_on_engine + 1
    /\ UNCHANGED <<initial_capital, config, trades, cumulative_pnl, portfolio_value,
                   equity_curve, results, call, gather, retry>>

\* the loop clearing the vwap_valid flag of an opportunity it refuses
LoopIteration_marks_refused ==
    /\ pc = "loop"
    /\ i < Len(opportunities)
    /\ LET opportunity == opportunities[i + 1]
           trade == loop_body(opportunity, config)
       IN  IF trade # NoneVal
           THEN /\ execute_trade_updates(trade)
                /\ trades' = Append(trades, trade)
                /\ equity_curve' = Append(equity_curve, EquityPoint(opportunity))
                /\ UNCHANGED <<failed_trades, opportunities>>
           ELSE /\ failed_trades' = failed_trades + 1
                /\ opportunities' = [opportunities EXCEPT ![i + 1].vwap_valid = FALSE]
                /\ UNCHANGED <<trades, cumulative_pnl, portfolio_value, equity_curve>>
    /\ i' = i + 1
    /\ UNCHANGED <<initial_capital, config, pc, calls_on_engine, results, call, gather, retry>>

\* the loop leaving run_backtest's remaining opportunities unprocessed once one is refused
LoopIteration_rejection_stops ==
    /\ pc = "loop"
    /\ i < Len(opportunities)
    /\ LET opportunity == opportunities[i + 1]
           trade == loop_body(opportunity, config)
       IN  IF trade # NoneVal
           THEN /\ execute_trade_updates(trade)
                /\ trades' = Append(trades, trade)
                /\ equity_curve' = Append(equity_curve, EquityPoint(opportunity))
                /\ failed_trades' = failed_trades
                /\ i' = i + 1
           ELSE /\ failed_trades' = failed_trades + 1
                /\ i' = Len(opportunities)
                /\ UNCHANGED <<trades, cumulative_pnl, portfolio_value, equity_curve>>
    /\ UNCHANGED <<initial_capital, config, opportunities, pc, calls_on_engine, results, call, gather, retry>>

\* the loop putting each new trade and equity point in front of the earlier ones
LoopIteration_prepends ==
    /\ pc = "loop"
    /\ i < Len(opportunities)
    /\ LET opportunity == opportunities[i + 1]
           trade == loop_body(opportunity, config)
       IN  IF trade # NoneVal
           THEN /\ execute_trade_updates(trade)
                /\ trades' = <<trade>> \o trades
                /\ equity_curve' = <<EquityPoint(opportunity)>> \o equity_curve
                /\ failed_trades' = failed_trades
           ELSE /\ failed_trades' = failed_trades + 1
                /\ UNCHANGED <<trades, cumulative_pnl, portfolio_value, equity_curve>>
    /\ i' = i + 1
    /\ UNCHANGED <<initial_capital, config, opportunities, pc, calls_on_engine, results, call, gather, retry>>

\* one iteration of run_backtest's loop, on opportunities[i + 1]
LoopIteration ==
    /\ pc = "loop"
    /\ i < Len(opportunities)
    /\ LET opportunity == opportunities[i + 1]
           trade == loop_body(opportunity, config)
       IN  IF trade # NoneVal
           THEN /\ execute_trade_updates(trade)
                /\ trades' = Append(trades, trade)
                /\ equity_curve' = Append(equity_curve, EquityPoint(opportunity))
                /\ failed_trades' = failed_trades
           ELSE /\ failed_trades' = failed_trades + 1
                /\ UNCHANGED <<trades, cumulative_pnl, portfolio_value, equity_curve>>
    /\ i' = i + 1
    /\ UNCHANGED <<initial_capital, config, opportunities, pc, calls_on_engine, results, call, gather, retry>>

\* run_backtest returns after the last opportunity; the history keeps what it
\* returned and the metrics run_complete_backtest computes from that
Return ==
    /\ pc = "loop"
    /\ i = Len(opportunities)
    /\ results' = Append(results, [fresh_engine  |-> calls_on_engine = 1,
                                   opportunities |-> opportunities,
                                   ret           |-> ReturnValue,
                                   metrics       |-> calculate_metrics(ReturnValue.trades,
                                                                       ReturnValue.equity_curve)])
    /\ pc' = "idle"
    /\ UNCHANGED <<initial_capital, config, trades, cumulative_pnl, portfolio_value,
                   equity_curve, opportunities, i, failed_trades, calls_on_engine, call, gather, retry>>

Next == NewEngine \/ RunBacktest \/ LoopIteration \/ Return

Spec == Init /\ [][Next]_vars

-----------------------------------------------------------------------------
(* Direct calls of the pure functions, on product sets of inputs: one call *)
(* per behaviour, recorded with its arguments and its result.              *)

PnlRates == {Float(-1, 1000), Zero, Float(1, 1000)}

PnlPrices == {Zero, Float(100, 1), Float(101, 1)}

PnlCapitals == {Float(-5000, 1), Zero, Float(10000, 1)}

PnlConfigs ==
    [maker_fee : {Zero, Float(2, 10000)}, taker_fee : {Zero, Float(4, 10000)}]

\* TradeDirectionDeterminer.determine_direction(bybit_pay, binance_pay, bybit_rate, binance_rate)
CallDetermineDirection ==
    /\ call = NoCall
    /\ \E bybit_pay \in BOOLEAN, binance_pay \in BOOLEAN, bybit_rate \in PnlRates, binance_rate \in PnlRates :
          call' = [fn           |-> "determine_direction",
                   bybit_pay    |-> bybit_pay,
                   binance_pay  |-> binance_pay,
                   bybit_rate   |-> bybit_rate,
                   binance_rate |-> binance_rate,
                   ret          |-> determine_direction(bybit_pay, binance_pay, bybit_rate, binance_rate)]
    /\ UNCHANGED <<engine_vars, gather, retry>>

\* PnLCalculator.calculate_pnl(direction, four VWAPs, two rates, position_size, config)
CallCalculatePnl ==
    /\ call = NoCall
    /\ \E direction \in TradeDirection, entry_bn \in PnlPrices, exit_bn \in PnlPrices,
          entry_by \in PnlPrices, exit_by \in PnlPrices,
          binance_rate \in PnlRates, bybit_rate \in PnlRates,
          K \in PnlCapitals, cfg \in PnlConfigs :
          call' = [fn            |-> "calculate_pnl",
                   direction     |-> direction,
                   vwap_entry_bn |-> entry_bn,
                   vwap_exit_bn  |-> exit_bn,
                   vwap_entry_by |-> entry_by,
                   vwap_exit_by  |-> exit_by,
                   binance_rate  |-> binance_rate,
                   bybit_rate    |-> bybit_rate,
                   position_size |-> FDiv(K, Float(2, 1)),
                   config        |-> cfg,
                   ret           |-> calculate_pnl(direction, entry_bn, exit_bn, entry_by, exit_by,
                                                   binance_rate, bybit_rate, FDiv(K, Float(2, 1)), cfg)]
    /\ UNCHANGED <<engine_vars, gather, retry>>

\* one loop body of run_backtest on an opportunity whose four VWAPs are present
CallLoopBody ==
    /\ call = NoCall
    /\ \E bybit_pay \in BOOLEAN, binance_pay \in BOOLEAN, bybit_rate \in PnlRates, binance_rate \in PnlRates,
          entry_bn \in PnlPrices, exit_bn \in PnlPrices, entry_by \in PnlPrices, exit_by \in PnlPrices,
          K \in PnlCapitals, cfg \in PnlConfigs :
          LET opportunity == Opportunity(1000, "BTCUSDT", K, bybit_pay, binance_pay, bybit_rate,
                                         binance_rate, entry_bn, exit_bn, entry_by, exit_by, TRUE)
          IN  call' = [fn          |-> "loop_body",
                       opportunity |-> opportunity,
                       config      |-> cfg,
                       resolved    |-> determine_direction(bybit_pay, binance_pay, bybit_rate, binance_rate),
                       pnl_result  |-> price_opportunity(opportunity, cfg),
                       trade       |-> loop_body(opportunity, cfg)]
    /\ UNCHANGED <<engine_vars, gather, retry>>

NextPnL == CallDetermineDirection \/ CallCalculatePnl \/ CallLoopBody

SpecPnL == Init /\ [][NextPnL]_vars

-----------------------------------------------------------------------------
(* Direct calls of the VWAP functions: one call per behaviour.              *)

\* (high, low, close, volume) of the candles: a wide candle around 100, a
\* candle around 50, a flat candle without volume and a flat candle at price 0
\* (the anomalies kline_validator.py names volume_zero and price_zero)
Around100 == <<Float(102, 1), Float(99, 1), Float(100, 1), Float(2, 1)>>

Around50 == <<Float(51, 1), Float(48, 1), Float(51, 1), Float(1, 1)>>

NoVolume == <<Float(100, 1), Float(100, 1), Float(100, 1), Zero>>

PriceZero == <<Zero, Zero, Zero, Float(1, 1)>>

CandleShapes == {Around100, Around50, NoVolume, PriceZero}

\* all klines row sequences with at most one candle per time of `times`, in
\* ascending time order (the fetcher sorts by timestamp and drops duplicates)
RECURSIVE RowsOver(_)
RowsOver(times) ==
    IF times = <<>> THEN {<<>>}
    ELSE LET rest == RowsOver(Tail(times))
         IN  rest \cup {<<Candle(Head(times), s[1], s[2], s[3], s[4])>> \o r :
                           s \in CandleShapes, r \in rest}

\* the window of the direct calculate_vwap calls, and candle times before it,
\* on its start, inside it, on its end and after it
WindowStart == 480000

WindowEnd == 600000

CandleTimes == <<420000, 480000, 540000, 600000, 660000>>

MinCandles == {1, DefaultMinCandles}

\* VWAPCalculator.calculate_vwap(klines_df, start_time, end_time, min_required_candles)
CallCalculateVwap ==
    /\ call = NoCall
    /\ \E rows \in RowsOver(CandleTimes), min_required_candles \in MinCandles :
          call' = [fn                   |-> "calculate_vwap",
                   klines_df            |-> DataFrame(rows),
                   start_ms             |-> WindowStart,
                   end_ms               |-> WindowEnd,
                   min_required_candles |-> min_required_candles,
                   ret                  |-> calculate_vwap(DataFrame(rows), WindowStart, WindowEnd,
                                                           min_required_candles)]
    /\ UNCHANGED <<engine_vars, gather, retry>>

\* the opportunity time of the calls below, and the minutes around it
OppTime == 600000

\* opportunity times on a candle and half a minute after it
OppTimes == {OppTime, OppTime + 30000}

Minute(k) == OppTime + k * MsPerMinute

\* the rows with one candle on each minute of `minutes`, shaped by shape[minute]
RowsAt(minutes, shape) ==
    [k \in DOMAIN minutes |->
        LET s == shape[minutes[k]]
        IN  Candle(Minute(minutes[k]), s[1], s[2], s[3], s[4])]

\* what an exchange's entry of klines_dict can hold: None, a DataFrame without
\* rows, and candle series from minute -3 to minute 3 around the opportunity
ExchangeKlines ==
    LET all == <<-3, -2, -1, 0, 1, 2, 3>>
        Steady100 == [k \in -3..3 |-> Around100]
        Steady50 == [k \in -3..3 |-> Around50]
        Rising == [k \in -3..3 |-> IF k <= 0 THEN Around50 ELSE Around100]
        DryExit == [k \in -3..3 |-> IF k < 0 THEN Around100 ELSE NoVolume]
        ZeroExit == [k \in -3..3 |-> IF k < 0 THEN Around100 ELSE PriceZero]
        ZeroEntry == [k \in -3..3 |-> IF k <= 0 THEN PriceZero ELSE Around100]
    IN  {NoneVal,
         DataFrame(<<>>),
         DataFrame(RowsAt(all, Steady100)),
         DataFrame(RowsAt(all, Steady50)),
         DataFrame(RowsAt(all, Rising)),
         DataFrame(RowsAt(<<-3, -2, -1, 1, 2, 3>>, Rising)),
         DataFrame(RowsAt(<<0, 1, 2, 3>>, Steady100)),
         DataFrame(RowsAt(<<-3, -2, -1, 0>>, Steady50)),
         DataFrame(RowsAt(<<-3>>, Steady100)),
         DataFrame(RowsAt(all, DryExit)),
         DataFrame(RowsAt(all, ZeroExit)),
         DataFrame(RowsAt(all, ZeroEntry))}

\* {exchange: DataFrame} with both, one or none of the exchanges as keys
SymbolKlinesDicts ==
    UNION {[exchanges -> ExchangeKlines] : exchanges \in SUBSET {"binance", "bybit"}}

\* vwap_window_minutes
WindowMinutes == {2, 3}

\* an opportunity as the loader hands it over: no VWAPs yet, vwap_valid false
LoadedOpp(ts, sym) ==
    Opportunity(ts, sym, Float(10000, 1), FALSE, TRUE, Float(1, 1000), Float(-1, 1000),
                NoneVal, NoneVal, NoneVal, NoneVal, FALSE)

\* VWAPCalculator.calculate_entry_exit_vwap(opportunity, klines_dict, vwap_window_minutes)
CallEntryExitVwap ==
    /\ call = NoCall
    /\ \E ts \in OppTimes, klines_dict \in SymbolKlinesDicts, w \in WindowMinutes :
          call' = [fn                  |-> "calculate_entry_exit_vwap",
                   opportunity         |-> LoadedOpp(ts, "BTCUSDT"),
                   klines_dict         |-> klines_dict,
                   vwap_window_minutes |-> w,
                   ret                 |-> calculate_entry_exit_vwap(LoadedOpp(ts, "BTCUSDT"),
                                                                     klines_dict, w)]
    /\ UNCHANGED <<engine_vars, gather, retry>>

\* the VWAP attachment of one opportunity by calculate_vwaps_for_all_opportunities,
\* from klines of BTCUSDT only, followed by the engine's loop body on the result
CallIntegrate ==
    /\ call = NoCall
    /\ \E sym \in {"BTCUSDT", "ETHUSDT"}, symbol_klines \in SymbolKlinesDicts, w \in WindowMinutes :
          LET klines_dict == [s \in {"BTCUSDT"} |-> symbol_klines]
              updated == integrate_opportunity(LoadedOpp(OppTime, sym), klines_dict, w)
          IN  call' = [fn                  |-> "integrate",
                       opportunity         |-> LoadedOpp(OppTime, sym),
                       klines_dict         |-> klines_dict,
                       vwap_window_minutes |-> w,
                       updated             |-> updated,
                       trade               |-> loop_body(updated, config)]
    /\ UNCHANGED <<engine_vars, gather, retry>>

\* the longest opportunity list handed to the integrator
MaxBatch == 3

\* the symbols of a batch
BatchSymbols == {"BTCUSDT", "ETHUSDT"}

\* the opportunities of a batch, as the loader hands them over
BatchOpps == {LoadedOpp(ts, sym) : ts \in OppTimes, sym \in BatchSymbols}

\* klines_dict[symbol] in a batch: both exchanges with candles (two price
\* paths), a missing exchange, a None series, an empty series, no exchange
BatchSymbolKlines ==
    LET all == <<-3, -2, -1, 0, 1, 2, 3>>
        Steady100 == DataFrame(RowsAt(all, [k \in -3..3 |-> Around100]))
        Rising == DataFrame(RowsAt(all, [k \in -3..3 |-> IF k <= 0 THEN Around50 ELSE Around100]))
    IN  {[e \in {"binance", "bybit"} |-> Steady100],
         [e \in {"binance", "bybit"} |-> IF e = "binance" THEN Rising ELSE Steady100],
         [e \in {"binance"} |-> Steady100],
         [e \in {"binance", "bybit"} |-> IF e = "binance" THEN NoneVal ELSE Steady100],
         [e \in {"binance", "bybit"} |-> IF e = "bybit" THEN DataFrame(<<>>) ELSE Rising],
         [e \in {} |-> NoneVal]}

\* {symbol: {exchange: DataFrame}} with both, one or none of the symbols as keys
BatchKlinesDicts ==
    UNION {[symbols -> BatchSymbolKlines] : symbols \in SUBSET BatchSymbols}

\* VWAPIntegrator.calculate_vwaps_for_all_opportunities(opportunities, klines_dict,
\* vwap_window_minutes)
CallIntegrateAll ==
    /\ call = NoCall
    /\ \E opps \in ListsUpTo(BatchOpps, MaxBatch), klines_dict \in BatchKlinesDicts,
          w \in WindowMinutes :
          call' = [fn                  |-> "calculate_vwaps_for_all_opportunities",
                   opportunities       |-> opps,
                   klines_dict         |-> klines_dict,
                   vwap_window_minutes |-> w,
                   ret                 |-> calculate_vwaps_for_all_opportunities(opps, klines_dict, w)]
    /\ UNCHANGED <<engine_vars, gather, retry>>

NextVwap == CallCalculateVwap \/ CallEntryExitVwap \/ CallIntegrate \/ CallIntegrateAll

SpecVwap == Init /\ [][NextVwap]_vars

-----------------------------------------------------------------------------
(* The claims. *)

\* a loop iteration of run_backtest is a step from pc = "loop" that advances i
IsIteration == pc = "loop" /\ pc' = "loop" /\ i' = i + 1

\* the opportunity a loop iteration processes
Current == opportunities[i + 1]

ExactlyOnePays(bybit_pay, binance_pay) == bybit_pay # binance_pay

\* C1: every equity point satisfies portfolio_value = initial_capital +
\* cumulative_pnl, and so do the engine's own fields in every reachable state,
\* whatever opportunities were accepted and rejected before.
C1_EquityInvariant ==
    /\ portfolio_value = FAdd(initial_capital, cumulative_pnl)
    /\ \A k \in DOMAIN equity_curve :
          equity_curve[k].portfolio_value = FAdd(initial_capital, equity_curve[k].cumulative_pnl)

\* C1 witness: inside a run, after one accepted and one rejected opportunity
C1_Witness ==
    /\ pc = "loop"
    /\ Len(equity_curve) = 1
    /\ failed_trades = 1
    /\ cumulative_pnl # Zero
    /\ portfolio_value # initial_capital

\* C2: the k-th equity point carries trades_count = k; an iteration that
\* rejects its opportunity (failed_trades grows) leaves the trade log and the
\* equity curve as they are, and an iteration that accepts it appends exactly
\* one trade and one equity point whose count is the previous count plus 1.
C2_TradeCount ==
    /\ [](\A k \in DOMAIN equity_curve : equity_curve[k].trades_count = k)
    /\ [][IsIteration =>
            IF failed_trades' = failed_trades + 1
            THEN trades' = trades /\ equity_curve' = equity_curve
            ELSE /\ failed_trades' = failed_trades
                 /\ Len(trades') = Len(trades) + 1
                 /\ Len(equity_curve') = Len(equity_curve) + 1
                 /\ SubSeq(equity_curve', 1, Len(equity_curve)) = equity_curve
                 /\ equity_curve'[Len(equity_curve')].trades_count = Len(equity_curve) + 1]_vars

\* C2 witness: two trades accepted, the second equity point counts 2
C2_Witness ==
    /\ Len(equity_curve) = 2
    /\ equity_curve[1].trades_count = 1
    /\ equity_curve[2].trades_count = 2
    /\ calls_on_engine = 1

C3_SameObjectRerunIdentical ==
    \A a \in DOMAIN results, b \in DOMAIN results :
        results[a].opportunities = results[b].opportunities =>
        /\ results[a].ret.trades = results[b].ret.trades
        /\ results[a].ret.equity_curve = results[b].ret.equity_curve

\* C4: with exactly one pay flag true determine_direction does not raise and
\* follows the decision table, which reads only the paying exchange's rate and
\* sends a rate of 0 to the >= 0 branch.
C4_DirectionTable ==
    (call.fn = "determine_direction" /\ ExactlyOnePays(call.bybit_pay, call.binance_pay))
    => /\ ~Raised(call.ret)
       /\ call.ret.direction \in TradeDirection
       /\ call.ret.direction =
            IF call.bybit_pay
            THEN IF call.bybit_rate.n < 0
                 THEN LONG_BYBIT_SHORT_BINANCE ELSE SHORT_BYBIT_LONG_BINANCE
            ELSE IF call.binance_rate.n < 0
                 THEN LONG_BINANCE_SHORT_BYBIT ELSE SHORT_BINANCE_LONG_BYBIT

\* C4 witness: binance pays at rate 0 while bybit's rate is negative
C4_Witness ==
    /\ call.fn = "determine_direction"
    /\ call.binance_pay /\ ~call.bybit_pay
    /\ call.binance_rate = Zero
    /\ call.bybit_rate.n < 0
    /\ call.ret = [direction |-> SHORT_BINANCE_LONG_BYBIT, recv |-> "bybit", pay |-> "binance"]

\* number of opportunities among the first n that have exactly one pay flag true
RECURSIVE OnePayCount(_)
OnePayCount(n) ==
    IF n = 0 THEN 0
    ELSE OnePayCount(n - 1) +
         (IF ExactlyOnePays(opportunities[n].bybit_pay, opportunities[n].binance_pay) THEN 1 ELSE 0)

\* C5: for pay flags both true or both false determine_direction raises
\* ValueError; the iteration that meets such an opportunity appends no trade
\* and no equity point, adds 1 to failed_trades, leaves cumulative_pnl and
\* portfolio_value alone and stays in the loop on the same list, one position
\* further.  So the trade log never holds more trades than opportunities with
\* exactly one pay flag true were processed.
C5_BadFlagsRejected ==
    /\ [](\A k \in DOMAIN opportunities :
            ~ExactlyOnePays(opportunities[k].bybit_pay, opportunities[k].binance_pay)
            => determine_direction(opportunities[k].bybit_pay, opportunities[k].binance_pay,
                                   opportunities[k].bybit_rate, opportunities[k].binance_rate)
               = Raise("ValueError"))
    /\ [](pc = "loop" =>
            Len(trades) <= (calls_on_engine - 1) * OnePayCount(Len(opportunities)) + OnePayCount(i))
    /\ [][(IsIteration /\ ~ExactlyOnePays(Current.bybit_pay, Current.binance_pay)) =>
            /\ trades' = trades
            /\ equity_curve' = equity_curve
            /\ failed_trades' = failed_trades + 1
            /\ cumulative_pnl' = cumulative_pnl
            /\ portfolio_value' = portfolio_value
            /\ opportunities' = opportunities]_vars

\* C5 witness: both flags true on an otherwise tradable first opportunity,
\* which failed, and the second opportunity was processed and accepted
C5_Witness ==
    /\ pc = "loop"
    /\ calls_on_engine = 1
    /\ i = 2
    /\ opportunities[1].bybit_pay /\ opportunities[1].binance_pay
    /\ opportunities[1].vwap_valid
    /\ NoneVal \notin VwapValues(opportunities[1])
    /\ FLt(Zero, opportunities[1].K)
    /\ failed_trades = 1
    /\ Len(trades) = 1
    /\ trades[1].symbol = opportunities[2].symbol

\* C6: the iteration that meets an opportunity with vwap_valid false, with one
\* of the four VWAP values None, or with K <= 0 adds exactly 1 to failed_trades
\* and leaves the trade log, the equity curve, cumulative_pnl and
\* portfolio_value unchanged.
C6_InvalidRejected ==
    [][(/\ IsIteration
        /\ \/ ~Current.vwap_valid
           \/ Current.vwap_entry_binance = NoneVal
           \/ Current.vwap_exit_binance = NoneVal
           \/ Current.vwap_entry_bybit = NoneVal
           \/ Current.vwap_exit_bybit = NoneVal
           \/ FLe(Current.K, Zero))
       => /\ failed_trades' = failed_trades + 1
          /\ trades' = trades
          /\ equity_curve' = equity_curve
          /\ cumulative_pnl' = cumulative_pnl
          /\ portfolio_value' = portfolio_value]_vars

\* C6 witness: after an accepted trade an opportunity with K = 0, valid prices
\* and one pay flag was counted as failed
C6_Witness ==
    /\ pc = "loop"
    /\ i = 2
    /\ Len(trades) = 1
    /\ failed_trades = 1
    /\ opportunities[2].K = Zero
    /\ opportunities[2].vwap_valid
    /\ NoneVal \notin VwapValues(opportunities[2])
    /\ ExactlyOnePays(opportunities[2].bybit_pay, opportunities[2].binance_pay)

\* the opportunity of a loop body call gave a trade
Accepted == call.fn = "loop_body" /\ call.trade # NoneVal

\* C7: an accepted trade has total_fees = entry_fee + exit_fee,
\* net_pnl = price_pnl + funding_pnl - total_fees and
\* pnl_pct = net_pnl / (2 * position_size) * 100 with position_size = K / 2,
\* which is net_pnl / K * 100.
C7_NetPnl ==
    Accepted =>
        LET t == call.trade
            position_size == FDiv(call.opportunity.K, Float(2, 1))
        IN  /\ t.total_fees = FAdd(t.entry_fee, t.exit_fee)
            /\ t.net_pnl = FSub(FAdd(t.price_pnl, t.funding_pnl), t.total_fees)
            /\ t.pnl_pct = FMul(FDiv(t.net_pnl, FMul(Float(2, 1), position_size)), Float(100, 1))
            /\ t.pnl_pct = FMul(FDiv(t.net_pnl, call.opportunity.K), Float(100, 1))

\* C7 witness: an accepted trade with price P&L, funding P&L, fees and net P&L all non-zero
C7_Witness ==
    /\ Accepted
    /\ call.trade.price_pnl # Zero
    /\ call.trade.funding_pnl # Zero
    /\ call.trade.total_fees # Zero
    /\ call.trade.net_pnl # Zero
    /\ call.trade.pnl_pct # Zero

\* C8: an accepted trade, whatever its direction, prices and rates and whatever
\* maker_fee is, has entry_fee = exit_fee = position_size * taker_fee * 2 and
\* total_fees = position_size * taker_fee * 4.
C8_Fees ==
    Accepted =>
        LET t == call.trade
            position_size == FDiv(call.opportunity.K, Float(2, 1))
            taker_fee == call.config.taker_fee
        IN  /\ t.direction \in TradeDirection
            /\ t.entry_fee = FMul(FMul(position_size, taker_fee), Float(2, 1))
            /\ t.exit_fee = t.entry_fee
            /\ t.total_fees = FMul(FMul(position_size, taker_fee), Float(4, 1))

\* C8 witness: an accepted short binance / long bybit trade, taker fee 0.0004
\* and maker fee 0, pays fees of 5000 * 0.0004 * 4 = 8
C8_Witness ==
    /\ Accepted
    /\ call.trade.direction = SHORT_BINANCE_LONG_BYBIT
    /\ call.config.taker_fee = Float(4, 10000)
    /\ call.config.maker_fee = Zero
    /\ call.opportunity.K = Float(10000, 1)
    /\ call.trade.total_fees = Float(8, 1)

\* the exchange a direction is long on
LongExchange(direction) ==
    IF direction \in {LONG_BYBIT_SHORT_BINANCE, SHORT_BINANCE_LONG_BYBIT} THEN "bybit" ELSE "binance"

\* C9: for each direction and non-zero entry prices calculate_pnl does not
\* raise and its price P&L is position_size * (exit - entry) / entry of the
\* exchange the direction is long on plus position_size * -(exit - entry) / entry
\* of the exchange it is short on, each with that exchange's own VWAPs.
C9_PricePnl ==
    (call.fn = "calculate_pnl" /\ call.vwap_entry_bn # Zero /\ call.vwap_entry_by # Zero) =>
        LET move_bn == FDiv(FSub(call.vwap_exit_bn, call.vwap_entry_bn), call.vwap_entry_bn)
            move_by == FDiv(FSub(call.vwap_exit_by, call.vwap_entry_by), call.vwap_entry_by)
            long  == IF LongExchange(call.direction) = "bybit" THEN move_by ELSE move_bn
            short == IF LongExchange(call.direction) = "bybit" THEN move_bn ELSE move_by
        IN  /\ ~Raised(call.ret)
            /\ call.ret.price_pnl = FAdd(FMul(call.position_size, long),
                                         FMul(call.position_size, FNeg(short)))

\* C9 witness: short binance / long bybit with binance 100 -> 101 and bybit
\* 101 -> 100 at position size 5000 loses 50 on the short leg and 5000/101 on the long leg
C9_Witness ==
    /\ call.fn = "calculate_pnl"
    /\ call.direction = SHORT_BINANCE_LONG_BYBIT
    /\ call.vwap_entry_bn = Float(100, 1) /\ call.vwap_exit_bn = Float(101, 1)
    /\ call.vwap_entry_by = Float(101, 1) /\ call.vwap_exit_by = Float(100, 1)
    /\ call.position_size = Float(5000, 1)
    /\ call.ret.price_pnl = FNeg(FAdd(Float(50, 1), Float(5000, 101)))

\* a loop body call that got as far as a P&L: exactly one pay flag, no exception
Priced ==
    /\ call.fn = "loop_body"
    /\ ExactlyOnePays(call.opportunity.bybit_pay, call.opportunity.binance_pay)
    /\ ~Raised(call.pnl_result)

\* the rate of the exchange determine_direction reported as receiving
ReceivedRate ==
    IF call.resolved.recv = "bybit" THEN call.opportunity.bybit_rate ELSE call.opportunity.binance_rate

IsAccept == IsIteration /\ Len(trades') = Len(trades) + 1

\* the scenario of the specification: binance pays at -0.001, binance moves
\* 100 -> 101, bybit 50 -> 49.5, capital 10000
ScenarioOpp ==
    Opportunity(1000, "BTCUSDT", Float(10000, 1), FALSE, TRUE, Float(1, 1000), Float(-1, 1000),
                Float(100, 1), Float(101, 1), Float(50, 1), Float(99, 2), TRUE)

\* C11: the trade an iteration appends carries the timestamp, symbol and K of
\* the opportunity of that iteration, the direction determine_direction gives
\* for its pay flags, and the price P&L, funding P&L, fees and net P&L that
\* calculate_price_pnl, calculate_funding_pnl and calculate_fees give for that
\* direction, its four VWAPs, its two rates and position_size = K / 2; for the
\* scenario opportunity and taker fee 0.0004 these are long binance / short
\* bybit, 100, 5, 8 and 97.
C11_TradeIsOwnPnl ==
    [][IsAccept =>
        LET o == Current
            t == trades'[Len(trades')]
            d == determine_direction(o.bybit_pay, o.binance_pay, o.bybit_rate, o.binance_rate)
            position_size == FDiv(o.K, Float(2, 1))
            fees == calculate_fees(position_size, config)
        IN  /\ SubSeq(trades', 1, Len(trades)) = trades
            /\ t.timestamp = o.timestamp /\ t.symbol = o.symbol /\ t.K = o.K
            /\ ~Raised(d)
            /\ t.direction = d.direction
            /\ t.price_pnl = calculate_price_pnl(d.direction, o.vwap_entry_binance, o.vwap_exit_binance,
                                                 o.vwap_entry_bybit, o.vwap_exit_bybit, position_size)
            /\ t.funding_pnl = calculate_funding_pnl(d.direction, o.binance_rate, o.bybit_rate,
                                                     position_size)
            /\ t.entry_fee = fees.entry_fee
            /\ t.exit_fee = fees.exit_fee
            /\ t.total_fees = FAdd(fees.entry_fee, fees.exit_fee)
            /\ t.net_pnl = FSub(FAdd(t.price_pnl, t.funding_pnl), t.total_fees)
            /\ (o = ScenarioOpp /\ config.taker_fee = Float(4, 10000)) =>
                  /\ t.direction = LONG_BINANCE_SHORT_BYBIT
                  /\ position_size = Float(5000, 1)
                  /\ t.price_pnl = Float(100, 1)
                  /\ t.funding_pnl = Float(5, 1)
                  /\ t.total_fees = Float(8, 1)
                  /\ t.net_pnl = Float(97, 1)]_vars

\* C11 witness: the scenario opportunity accepted second, after a trade on the
\* other symbol with other prices, and recorded with 100 / 5 / 8 / 97
C11_Witness ==
    /\ pc = "loop"
    /\ calls_on_engine = 1
    /\ i = 2
    /\ Len(trades) = 2
    /\ opportunities[1].symbol = "ETHUSDT"
    /\ opportunities[2] = ScenarioOpp
    /\ trades[1].symbol = "ETHUSDT"
    /\ trades[2].symbol = "BTCUSDT"
    /\ trades[2].direction = LONG_BINANCE_SHORT_BYBIT
    /\ trades[2].price_pnl = Float(100, 1)
    /\ trades[2].funding_pnl = Float(5, 1)
    /\ trades[2].total_fees = Float(8, 1)
    /\ trades[2].net_pnl = Float(97, 1)

\* C12: whatever the candles and the window, calculate_vwap returns None or a
\* price > 0.
C12_PositiveOrNone ==
    call.fn = "calculate_vwap" => (call.ret = NoneVal \/ FLt(Zero, call.ret))


\* the rows of a direct calculate_vwap call that lie in its window, by index
WindowRows ==
    {k \in DOMAIN call.klines_df.rows :
        /\ call.start_ms <= call.klines_df.rows[k].timestamp
        /\ call.klines_df.rows[k].timestamp <= call.end_ms}

RECURSIVE SumOver(_, _)
SumOver(S, term) ==
    IF S = {} THEN Zero
    ELSE LET k == CHOOSE k \in S : TRUE
         IN  FAdd(term[k], SumOver(S \ {k}, term))

\* C14: calculate_vwap never raises; it returns None when fewer than
\* min_required_candles rows have start <= timestamp <= end or when the
\* volumes of those rows sum to 0, and otherwise the sum of
\* (high + low + close) / 3 * volume over exactly those rows divided by the
\* sum of their volumes.
C14_VwapFormula ==
    call.fn = "calculate_vwap" =>
        LET rows == call.klines_df.rows
            volume == SumOver(WindowRows, [k \in WindowRows |-> rows[k].volume])
            weighted == SumOver(WindowRows,
                           [k \in WindowRows |->
                               FMul(FDiv(FAdd(rows[k].high, FAdd(rows[k].low, rows[k].close)), Float(3, 1)),
                                    rows[k].volume)])
        IN  /\ ~Raised(call.ret)
            /\ IF Cardinality(WindowRows) < call.min_required_candles \/ volume = Zero
               THEN call.ret = NoneVal
               ELSE call.ret = FDiv(weighted, volume)

\* C14 witness: candles on the start and on the end of the window and one
\* without volume between them, a candle after the window: 3 rows count and
\* the VWAP is (50 * 1 + 100 * 0 + 301/3 * 2) / 3 = 752/9
C14_Witness ==
    /\ call.fn = "calculate_vwap"
    /\ call.min_required_candles = DefaultMinCandles
    /\ Len(call.klines_df.rows) = 4
    /\ call.klines_df.rows[1].timestamp = call.start_ms
    /\ call.klines_df.rows[1].close = Float(51, 1)
    /\ call.klines_df.rows[2].volume = Zero
    /\ call.klines_df.rows[3].timestamp = call.end_ms
    /\ call.klines_df.rows[3].close = Float(100, 1)
    /\ call.klines_df.rows[4].timestamp > call.end_ms
    /\ call.ret = Float(752, 9)


\* the VWAP of the rows with lo <= timestamp <= hi, as a sum over that set of
\* rows: None for fewer than 3 of them or for no volume
WindowVwap(rows, lo, hi) ==
    LET S == {k \in DOMAIN rows : lo <= rows[k].timestamp /\ rows[k].timestamp <= hi}
        volume == SumOver(S, [k \in S |-> rows[k].volume])
        weighted == SumOver(S, [k \in S |->
                        FMul(FDiv(FAdd(rows[k].high, FAdd(rows[k].low, rows[k].close)), Float(3, 1)),
                             rows[k].volume)])
    IN  IF Cardinality(S) < 3 \/ volume = Zero THEN NoneVal ELSE FDiv(weighted, volume)

\* the candles klines_dict holds for an exchange: none when it has no DataFrame for it
CandlesOf(klines_dict, exchange) ==
    IF exchange \notin DOMAIN klines_dict THEN <<>>
    ELSE IF klines_dict[exchange] = NoneVal THEN <<>>
    ELSE klines_dict[exchange].rows

\* the entry and exit VWAPs of both exchanges are each that of the exchange's
\* own candles in [t - w, t] and in [t, t + w]
OwnWindows ==
    LET t == call.opportunity.timestamp
        w == call.vwap_window_minutes * 60000
        bn == CandlesOf(call.klines_dict, "binance")
        by == CandlesOf(call.klines_dict, "bybit")
    IN  /\ call.ret.vwap_entry_bn = WindowVwap(bn, t - w, t)
        /\ call.ret.vwap_exit_bn = WindowVwap(bn, t, t + w)
        /\ call.ret.vwap_entry_by = WindowVwap(by, t - w, t)
        /\ call.ret.vwap_exit_by = WindowVwap(by, t, t + w)

\* C15 as stated: for every klines_dict each of the four VWAPs is that of the
\* exchange's own candles in its window, so no VWAP of one exchange depends on
\* what klines_dict holds for the other.
C15_PerExchangeWindows ==
    call.fn = "calculate_entry_exit_vwap" => OwnWindows

\* C15 amended: when klines_dict has a DataFrame with at least one row for
\* both exchanges each of the four VWAPs is that of the exchange's own candles
\* in its window; when it has none for one of the exchanges all four VWAPs
\* are None.
C15_OwnWindowsOrNone ==
    call.fn = "calculate_entry_exit_vwap" =>
        IF CandlesOf(call.klines_dict, "binance") = <<>> \/ CandlesOf(call.klines_dict, "bybit") = <<>>
        THEN /\ call.ret.vwap_entry_bn = NoneVal /\ call.ret.vwap_exit_bn = NoneVal
             /\ call.ret.vwap_entry_by = NoneVal /\ call.ret.vwap_exit_by = NoneVal
        ELSE OwnWindows

\* C15 witness: w = 2, binance steady around 100, bybit around 50 up to t and
\* around 100 after it: bybit's candle at t counts in its entry VWAP, 50, and
\* in its exit VWAP, (50 * 1 + 301/3 * 2 + 301/3 * 2) / 5 = 1354/15
C15_Witness ==
    /\ call.fn = "calculate_entry_exit_vwap"
    /\ call.opportunity.timestamp = OppTime
    /\ call.vwap_window_minutes = 2
    /\ call.ret.vwap_entry_bn = Float(301, 3)
    /\ call.ret.vwap_exit_bn = Float(301, 3)
    /\ call.ret.vwap_entry_by = Float(50, 1)
    /\ call.ret.vwap_exit_by = Float(1354, 15)


\* C16: after the VWAP attachment vwap_valid is true only if the four VWAP
\* values are present and > 0, and an opportunity with one of them None is not
\* valid and gives no trade in the engine's loop body.
C16_ValidMeansPositive ==
    call.fn = "integrate" =>
        /\ call.updated.vwap_valid =>
              \A v \in VwapValues(call.updated) : v # NoneVal /\ FLt(Zero, v)
        /\ NoneVal \in VwapValues(call.updated) =>
              ~call.updated.vwap_valid /\ call.trade = NoneVal


\* the timestamps of a sequence of records never decrease
NonDecreasing(s) == \A a \in DOMAIN s, b \in DOMAIN s : a < b => s[a].timestamp <= s[b].timestamp

\* C17: in a run on a new engine, after i iterations every one of the first i
\* opportunities was either accepted or counted as failed, there is one
\* equity point per trade, and the trades (and their equity points) are the
\* accepted ones of the first i opportunities in input order: they map to
\* strictly increasing positions of the list.  So if the list's timestamps
\* never decrease, the equity curve's never do.  Every iteration takes the
\* next opportunity of the unchanged list and appends at the end only.
C17_InputOrder ==
    /\ [](calls_on_engine = 1 =>
            /\ Len(trades) + failed_trades = i
            /\ Len(equity_curve) = Len(trades)
            /\ \E f \in [1..Len(trades) -> 1..i] :
                   /\ \A a \in 1..Len(trades), b \in 1..Len(trades) : a < b => f[a] < f[b]
                   /\ \A k \in 1..Len(trades) :
                          /\ trades[k].timestamp = opportunities[f[k]].timestamp
                          /\ trades[k].symbol = opportunities[f[k]].symbol
                          /\ trades[k].K = opportunities[f[k]].K
                          /\ equity_curve[k].timestamp = opportunities[f[k]].timestamp
                          /\ loop_body(opportunities[f[k]], config) # NoneVal
            /\ NonDecreasing(opportunities) => NonDecreasing(equity_curve))
    /\ [][IsIteration =>
            /\ opportunities' = opportunities
            /\ SubSeq(trades', 1, Len(trades)) = trades
            /\ SubSeq(equity_curve', 1, Len(equity_curve)) = equity_curve
            /\ Len(trades') - Len(trades) = Len(equity_curve') - Len(equity_curve)
            /\ Len(trades') > Len(trades) =>
                  /\ trades'[Len(trades')].timestamp = Current.timestamp
                  /\ equity_curve'[Len(equity_curve')].timestamp = Current.timestamp]_vars

\* C17 witness: a new engine accepted the opportunity at 1000 and then the one
\* at 2000; trade log and equity curve carry 1000, 2000
C17_Witness ==
    /\ calls_on_engine = 1
    /\ pc = "idle"
    /\ i = 2
    /\ opportunities[1].timestamp = 1000 /\ opportunities[2].timestamp = 2000
    /\ Len(trades) = 2
    /\ trades[1].timestamp = 1000 /\ trades[2].timestamp = 2000
    /\ equity_curve[1].timestamp = 1000 /\ equity_curve[2].timestamp = 2000


\* the opportunity is one the claims call rejected: invalid or missing prices,
\* pay flags not exactly one, K <= 0, or an entry price of 0
IsRejected(opportunity) ==
    \/ ~opportunity.vwap_valid
    \/ NoneVal \in VwapValues(opportunity)
    \/ ~ExactlyOnePays(opportunity.bybit_pay, opportunity.binance_pay)
    \/ FLe(opportunity.K, Zero)
    \/ opportunity.vwap_entry_binance = Zero
    \/ opportunity.vwap_entry_bybit = Zero

\* the list without its rejected opportunities
RejectedRemoved(opps) ==
    LET Keeps(opportunity) == ~IsRejected(opportunity)
    IN  SelectSeq(opps, Keeps)

\* C18: a run on a list and a run on that list with the rejected
\* opportunities removed, each on a new engine, return the same trade records
\* and the same equity points (and so the same final P&L); the first counts
\* exactly the removed opportunities as failed, the second none.
C18_RejectionIsLocal ==
    \A a \in DOMAIN results, b \in DOMAIN results :
        (/\ results[a].fresh_engine /\ results[b].fresh_engine
         /\ results[b].opportunities = RejectedRemoved(results[a].opportunities))
        => /\ results[b].ret.trades = results[a].ret.trades
           /\ results[b].ret.equity_curve = results[a].ret.equity_curve
           /\ results[b].ret.final_pnl = results[a].ret.final_pnl
           /\ results[b].ret.final_portfolio_value = results[a].ret.final_portfolio_value
           /\ results[a].ret.failed_trades
                = Len(results[a].opportunities) - Len(results[b].opportunities)
           /\ results[b].ret.failed_trades = 0

\* C18 witness: a run on a rejected opportunity followed by a tradable one and
\* a run on the tradable one alone, both on new engines, with the same trade
C18_Witness ==
    /\ Len(results) = 2
    /\ results[1].fresh_engine /\ results[2].fresh_engine
    /\ Len(results[1].opportunities) = 2
    /\ IsRejected(results[1].opportunities[1])
    /\ results[2].opportunities = <<results[1].opportunities[2]>>
    /\ results[1].ret.failed_trades = 1
    /\ Len(results[2].ret.trades) = 1
    /\ results[2].ret.trades = results[1].ret.trades
    /\ results[2].ret.final_pnl # Zero


\* the sum of net_pnl over the records of a trade log
NetPnlSum(log) == SumOver(DOMAIN log, [k \in DOMAIN log |-> log[k].net_pnl])

\* C19: in every state cumulative_pnl is the sum of net_pnl over the trade
\* log; every dict run_backtest returned has final_pnl equal to that sum over
\* its trades, final_portfolio_value = initial_capital + final_pnl and
\* return_pct = final_pnl / initial_capital * 100.
C19_CumulativeIsSum ==
    /\ cumulative_pnl = NetPnlSum(trades)
    /\ \A k \in DOMAIN results :
          LET ret == results[k].ret
          IN  /\ ret.final_pnl = NetPnlSum(ret.trades)
              /\ ret.final_portfolio_value = FAdd(initial_capital, ret.final_pnl)
              /\ ret.return_pct = FMul(FDiv(ret.final_pnl, initial_capital), Float(100, 1))

\* C19 witness: a finished run with two trades of different net P&L
C19_Witness ==
    /\ Len(results) = 1
    /\ pc = "idle"
    /\ results[1].ret.total_trades = 2
    /\ results[1].ret.trades[1].net_pnl # results[1].ret.trades[2].net_pnl
    /\ results[1].ret.trades[1].net_pnl # Zero
    /\ results[1].ret.final_pnl
         = FAdd(results[1].ret.trades[1].net_pnl, results[1].ret.trades[2].net_pnl)
    /\ results[1].ret.return_pct # Zero
    /\ cumulative_pnl = results[1].ret.final_pnl


\* C20: a run on a new engine in which every opportunity is rejected returns:
\* no trade and no equity point, total_trades = 0, final_pnl = 0,
\* final_portfolio_value = initial_capital, return_pct = 0 and failed_trades =
\* the length of the list; calculate_metrics on it raises nothing and gives 0
\* for every metric.
C20_NoTradeRun ==
    \A k \in DOMAIN results :
        (/\ results[k].fresh_engine
         /\ \A j \in DOMAIN results[k].opportunities : IsRejected(results[k].opportunities[j]))
        => /\ results[k].ret.total_trades = 0
           /\ results[k].ret.trades = <<>>
           /\ results[k].ret.equity_curve = <<>>
           /\ results[k].ret.final_pnl = Zero
           /\ results[k].ret.final_portfolio_value = initial_capital
           /\ results[k].ret.return_pct = Zero
           /\ results[k].ret.failed_trades = Len(results[k].opportunities)
           /\ ~Raised(results[k].metrics)
           /\ results[k].metrics.total_trades = 0
           /\ results[k].metrics.winning_trades = 0
           /\ results[k].metrics.losing_trades = 0
           /\ \A key \in DOMAIN results[k].metrics \ {"total_trades", "winning_trades", "losing_trades"} :
                  results[k].metrics[key] = Zero

\* C20 witness: a finished run on two rejected opportunities, one with both
\* pay flags true and one with invalid prices
C20_Witness ==
    /\ Len(results) = 1
    /\ pc = "idle"
    /\ Len(results[1].opportunities) = 2
    /\ results[1].opportunities[1].bybit_pay /\ results[1].opportunities[1].binance_pay
    /\ results[1].opportunities[1].vwap_valid
    /\ ~results[1].opportunities[2].vwap_valid
    /\ results[1].ret.failed_trades = 2
    /\ results[1].ret.total_trades = 0
    /\ results[1].metrics.total_pnl = Zero


-----------------------------------------------------------------------------
(* Direct calls of the data-loading functions: the specification SpecData. *)

\* milliseconds of an hour, the spacing of the funding timeline
MsPerHour == 3600000

\* the (symbol, timestamp) cells of the CSV files, file by file
CsvCells ==
    <<<<"BTCUSDT", MsPerHour>>, <<"BTCUSDT", 2 * MsPerHour>>,
      <<"ETHUSDT", MsPerHour>>, <<"ETHUSDT", 2 * MsPerHour>>,
      <<"SOLUSDT", MsPerHour>>, <<"SOLUSDT", 2 * MsPerHour>>>>

\* df_all for a choice of absent / tradable / idle per cell
CsvRows(cells) ==
    LET Present(k) == cells[k] # "absent"
        kept == SelectSeq([k \in DOMAIN CsvCells |-> k], Present)
    IN  [j \in DOMAIN kept |-> CsvRow(CsvCells[kept[j]][2], CsvCells[kept[j]][1],
                                       cells[kept[j]] = "tradable")]

\* the part of the configuration the loader reads
LoaderConfigs ==
    [initial_capital  : InitialCapitals \cup {Float(100, 1)},
     start_ms         : {MsPerHour, 2 * MsPerHour},
     end_ms           : {2 * MsPerHour},
     include_all      : BOOLEAN,
     symbol_whitelist : {{"BTCUSDT", "ETHUSDT"}},
     exclude_symbols  : {{}, {"ETHUSDT"}}]

\* OpportunityLoader.load_tradable_opportunities(config) on the files' rows
CallLoadTradable ==
    /\ call = NoCall
    /\ \E cells \in [DOMAIN CsvCells -> {"absent", "tradable", "idle"}], cfg \in LoaderConfigs :
          call' = [fn     |-> "load_tradable_opportunities",
                   df_all |-> CsvRows(cells),
                   config |-> cfg,
                   ret    |-> load_tradable_opportunities(CsvRows(cells), cfg)]
    /\ UNCHANGED <<engine_vars, gather, retry>>

\* the minutes of the candle grid of the fetcher calls
GridMinutes == 0..4

\* Optional[int] times on the grid
OptionalTimes == {NoneVal} \cup {Some(k * MsPerMinute) : k \in GridMinutes}

\* the candles an exchange has: one per minute from the listing time on
ExchangeCandles(listing_time_ms) ==
    {k * MsPerMinute : k \in {j \in GridMinutes :
                                listing_time_ms = NoneVal \/ j * MsPerMinute >= listing_time_ms.some}}

\* the cache files: none, or the candles of a run of minutes
CacheFiles ==
    {NoneVal} \cup {Frame({k * MsPerMinute : k \in a..b}) : a \in GridMinutes, b \in GridMinutes}

\* KlineFetcher._calculate_missing_periods(symbol, exchange, required_start_ms,
\* required_end_ms, cached_start_ms, cached_end_ms), the cache not older than
\* the listing
CallMissingPeriods ==
    /\ call = NoCall
    /\ \E listing \in OptionalTimes, rs \in {0, MsPerMinute}, re \in {3 * MsPerMinute, 4 * MsPerMinute},
          cs \in OptionalTimes, ce \in OptionalTimes :
          /\ (cs = NoneVal) = (ce = NoneVal)
          /\ cs # NoneVal => cs.some <= ce.some
          /\ cs # NoneVal /\ listing # NoneVal => listing.some <= cs.some
          /\ call' = [fn                |-> "_calculate_missing_periods",
                      listing_time_ms   |-> listing,
                      required_start_ms |-> rs,
                      required_end_ms   |-> re,
                      cached_start_ms   |-> cs,
                      cached_end_ms     |-> ce,
                      ret               |-> calculate_missing_periods(listing, rs, re, cs, ce)]
    /\ UNCHANGED <<engine_vars, gather, retry>>

\* KlineFetcher.fetch_klines_async(symbol, 'binance', start_ms, end_ms), the
\* cache file holding candles of the exchange
CallFetchKlines ==
    /\ call = NoCall
    /\ \E listing \in OptionalTimes, cache \in CacheFiles,
          start_ms \in {0, MsPerMinute}, end_ms \in {3 * MsPerMinute, 4 * MsPerMinute},
          outcomes \in [{"before", "after", "full"} -> {"all", "part", "none"}] :
          /\ Timestamps(cache) \subseteq ExchangeCandles(listing)
          /\ call' = [fn               |-> "fetch_klines_async",
                      listing_time_ms  |-> listing,
                      cache            |-> cache,
                      start_ms         |-> start_ms,
                      end_ms           |-> end_ms,
                      exchange_candles |-> ExchangeCandles(listing),
                      outcomes         |-> outcomes,
                      out              |-> fetch_klines_async(cache, listing, start_ms, end_ms,
                                                              ExchangeCandles(listing), outcomes)]
    /\ UNCHANGED <<engine_vars, gather, retry>>

NextData == CallLoadTradable \/ CallMissingPeriods \/ CallFetchKlines

SpecData == Init /\ [][NextData]_vars

-----------------------------------------------------------------------------
(* fetch_all_klines as concurrent tasks: the specification SpecGather. *)

\* asyncio.Semaphore(5) of each exchange
SemaphoreSlots == 5

\* the series fetch_klines_async returns for a (symbol, exchange), one candle
\* on a minute of its own
SeriesFor(symbol, exchange) ==
    Frame({((IF symbol = "BTCUSDT" THEN 0 ELSE 2) + (IF exchange = "binance" THEN 0 ELSE 1))
              * MsPerMinute})

\* what task_with_progress returns for a task by how its fetch ends: the
\* tuple (symbol, exchange, df), df None without data, or (None, None, None)
\* from the except branch; the key None is written "None"
TaskResult(symbol, exchange, outcome) ==
    IF outcome = "raises" THEN [symbol |-> "None", exchange |-> "None", df |-> NoneVal]
    ELSE [symbol |-> symbol, exchange |-> exchange,
          df |-> IF outcome = "data" THEN SeriesFor(symbol, exchange) ELSE NoneVal]

RECURSIVE CollectResults(_, _)
\* the loop over enumerate(results) that fills klines_dict
CollectResults(task_results, klines_dict) ==
    IF task_results = <<>> THEN klines_dict
    ELSE LET result == Head(task_results)
             of_symbol == IF result.symbol \in DOMAIN klines_dict
                          THEN klines_dict[result.symbol] ELSE [e \in {} |-> NoneVal]
             updated == [e \in DOMAIN of_symbol \cup {result.exchange} |->
                            IF e = result.exchange THEN result.df ELSE of_symbol[e]]
         IN  CollectResults(Tail(task_results),
                            [t \in DOMAIN klines_dict \cup {result.symbol} |->
                                IF t = result.symbol THEN updated ELSE klines_dict[t]])

\* tradable_symbols: distinct symbols in any order
SymbolLists ==
    {<<"BTCUSDT">>, <<"ETHUSDT">>, <<"BTCUSDT", "ETHUSDT">>, <<"ETHUSDT", "BTCUSDT">>}

\* fetch_all_klines is entered: one task per symbol and exchange, in that order
FetchAllKlines ==
    /\ gather.pc = "idle"
    /\ \E tradable_symbols \in SymbolLists :
          gather' = [pc               |-> "gathering",
                     tradable_symbols |-> tradable_symbols,
                     task_info        |-> [k \in 1..(2 * Len(tradable_symbols)) |->
                                              [symbol   |-> tradable_symbols[(k + 1) \div 2],
                                               exchange |-> IF k % 2 = 1 THEN "binance" ELSE "bybit"]],
                     state            |-> [k \in 1..(2 * Len(tradable_symbols)) |-> "created"],
                     results          |-> [k \in 1..(2 * Len(tradable_symbols)) |-> NoneVal],
                     bn_semaphore     |-> SemaphoreSlots,
                     by_semaphore     |-> SemaphoreSlots]
    /\ UNCHANGED <<engine_vars, call, retry>>

\* _fetch_with_semaphore: a task enters `async with semaphore`
TaskAcquire ==
    /\ gather.pc = "gathering"
    /\ \E k \in DOMAIN gather.task_info :
          /\ gather.state[k] = "created"
          /\ IF gather.task_info[k].exchange = "binance"
             THEN /\ gather.bn_semaphore > 0
                  /\ gather' = [gather EXCEPT !.state[k] = "fetching", !.bn_semaphore = @ - 1]
             ELSE /\ gather.by_semaphore > 0
                  /\ gather' = [gather EXCEPT !.state[k] = "fetching", !.by_semaphore = @ - 1]
    /\ UNCHANGED <<engine_vars, call, retry>>

\* a task's fetch_klines_async returns a series, returns None or raises; the
\* semaphore is released and task_with_progress returns the task's result
TaskFinish ==
    /\ gather.pc = "gathering"
    /\ \E k \in DOMAIN gather.task_info, outcome \in {"data", "none", "raises"} :
          /\ gather.state[k] = "fetching"
          /\ LET result == TaskResult(gather.task_info[k].symbol, gather.task_info[k].exchange,
                                      outcome)
             IN  IF gather.task_info[k].exchange = "binance"
                 THEN gather' = [gather EXCEPT !.state[k] = "done", !.results[k] = result,
                                               !.bn_semaphore = @ + 1]
                 ELSE gather' = [gather EXCEPT !.state[k] = "done", !.results[k] = result,
                                               !.by_semaphore = @ + 1]
    /\ UNCHANGED <<engine_vars, call, retry>>

\* asyncio.gather returns the results in task order and fetch_all_klines
\* returns the klines_dict built from them
GatherReturn ==
    /\ gather.pc = "gathering"
    /\ \A k \in DOMAIN gather.state : gather.state[k] = "done"
    /\ gather' = [pc               |-> "returned",
                  tradable_symbols |-> gather.tradable_symbols,
                  task_info        |-> gather.task_info,
                  results          |-> gather.results,
                  klines_dict      |-> CollectResults(gather.results, [t \in {} |-> NoneVal])]
    /\ UNCHANGED <<engine_vars, call, retry>>

NextGather == FetchAllKlines \/ TaskAcquire \/ TaskFinish \/ GatherReturn

SpecGather == Init /\ [][NextGather]_vars

-----------------------------------------------------------------------------
(* data_collector/utils.py, fetch_with_retry: the specification SpecRetry. *)

\* MAX_RETRIES of data_collector/config.py, the default of max_retries
MAX_RETRIES == 3

\* how a request ends: an HTTP status (200, 429, another one),
\* asyncio.TimeoutError or another exception
RequestOutcomes == {"200", "429", "other_status", "timeout", "exception"}

\* fetch_with_retry(session, url, params, max_retries) is called
CallFetchWithRetry ==
    /\ retry.pc = "idle"
    /\ \E max_retries \in 0..MAX_RETRIES :
          retry' = [pc |-> "loop", max_retries |-> max_retries, attempt |-> 0,
                    answers |-> <<>>, sleeps |-> 0, ret |-> NoneVal]
    /\ UNCHANGED <<engine_vars, call, gather>>

\* a loop iteration that goes on to the next attempt after any status but 200
RetryAttempt_retries_any_status ==
    /\ retry.pc = "loop"
    /\ retry.attempt < retry.max_retries
    /\ \E outcome \in RequestOutcomes :
          LET asked == [retry EXCEPT !.answers = Append(@, outcome)]
          IN  IF outcome = "200"
              THEN retry' = [asked EXCEPT !.pc = "returned", !.ret = [json |-> "body"]]
              ELSE IF outcome \in {"429", "other_status"}
              THEN retry' = [asked EXCEPT !.sleeps = @ + 1, !.attempt = @ + 1]
              ELSE IF retry.attempt < retry.max_retries - 1
              THEN retry' = [asked EXCEPT !.sleeps = @ + 1, !.attempt = @ + 1]
              ELSE retry' = [asked EXCEPT !.attempt = @ + 1]
    /\ UNCHANGED <<engine_vars, call, gather>>

\* one iteration of `for attempt in range(max_retries)`: the request and the
\* branch its outcome selects
RetryAttempt ==
    /\ retry.pc = "loop"
    /\ retry.attempt < retry.max_retries
    /\ \E outcome \in RequestOutcomes :
          LET asked == [retry EXCEPT !.answers = Append(@, outcome)]
          IN  IF outcome = "200"
              THEN retry' = [asked EXCEPT !.pc = "returned", !.ret = [json |-> "body"]]
              ELSE IF outcome = "429"
              THEN retry' = [asked EXCEPT !.sleeps = @ + 1, !.attempt = @ + 1]
              ELSE IF outcome = "other_status"
              THEN retry' = [asked EXCEPT !.pc = "returned", !.ret = NoneVal]
              ELSE IF retry.attempt < retry.max_retries - 1
              THEN retry' = [asked EXCEPT !.sleeps = @ + 1, !.attempt = @ + 1]
              ELSE retry' = [asked EXCEPT !.attempt = @ + 1]
    /\ UNCHANGED <<engine_vars, call, gather>>

\* the loop is over: `return None` after max_retries attempts
RetryExhausted ==
    /\ retry.pc = "loop"
    /\ retry.attempt = retry.max_retries
    /\ retry' = [retry EXCEPT !.pc = "returned", !.ret = NoneVal]
    /\ UNCHANGED <<engine_vars, call, gather>>

NextRetry == CallFetchWithRetry \/ RetryAttempt \/ RetryExhausted

\* every await of the loop (the request with its 30 s timeout, the sleep) ends
SpecRetry == Init /\ [][NextRetry]_vars /\ WF_vars(RetryAttempt \/ RetryExhausted)

-----------------------------------------------------------------------------
(* Systemic candle failures in the VWAP batch *)

\* the symbol has no usable candle source in klines_dict
NoUsableSource(klines_dict, symbol) ==
    \/ symbol \notin DOMAIN klines_dict
    \/ \E e \in {"binance", "bybit"} :
          \/ e \notin DOMAIN klines_dict[symbol]
          \/ klines_dict[symbol][e] = NoneVal
          \/ klines_dict[symbol][e] = DataFrame(<<>>)

\* the four VWAPs and the validity flag of an opportunity dict
VwapFields(opp_dict) ==
    <<opp_dict.vwap_entry_binance, opp_dict.vwap_entry_bybit,
      opp_dict.vwap_exit_binance, opp_dict.vwap_exit_bybit, opp_dict.vwap_valid>>

\* the VWAP fields of the opportunity dicts of a list that are not of the symbol
OthersVwaps(opps, symbol) ==
    LET Other(o) == o.symbol # symbol
        others == SelectSeq(opps, Other)
    IN  [k \in DOMAIN others |-> VwapFields(others[k])]

\* C21: when a symbol has no usable candle source, the batch returns one dict
\* per opportunity (no exception leaves it), every opportunity of that symbol
\* is marked vwap_valid = False, is refused by the engine and is counted in
\* stats.failure, and the opportunities of the other symbols get the VWAP fields
\* they get from the batch without the symbol
C21_SystemicFailure ==
    call.fn = "calculate_vwaps_for_all_opportunities" =>
        LET out == call.ret.updated_opportunities
        IN  \A s \in BatchSymbols :
              NoUsableSource(call.klines_dict, s) =>
                /\ Len(out) = Len(call.opportunities)
                /\ \A k \in DOMAIN out :
                      call.opportunities[k].symbol = s =>
                        /\ ~out[k].vwap_valid
                        /\ loop_body(out[k], config) = NoneVal
                /\ call.ret.stats.failure >=
                      Cardinality({k \in DOMAIN out : call.opportunities[k].symbol = s})
                /\ LET Other(o) == o.symbol # s
                       without == [t \in DOMAIN call.klines_dict \ {s} |-> call.klines_dict[t]]
                   IN  OthersVwaps(out, s) =
                         OthersVwaps(calculate_vwaps_for_all_opportunities(
                                         SelectSeq(call.opportunities, Other), without,
                                         call.vwap_window_minutes).updated_opportunities, s)

\* C21 witness: ETHUSDT has no bybit candles, BTCUSDT has both series; the
\* batch holds both symbols and BTCUSDT's opportunity is valid
C21_Witness ==
    /\ call.fn = "calculate_vwaps_for_all_opportunities"
    /\ Len(call.opportunities) = 3
    /\ call.opportunities[1].symbol = "ETHUSDT"
    /\ call.opportunities[2].symbol = "BTCUSDT"
    /\ call.opportunities[3].symbol = "ETHUSDT"
    /\ DOMAIN call.klines_dict = BatchSymbols
    /\ NoUsableSource(call.klines_dict, "ETHUSDT")
    /\ "binance" \in DOMAIN call.klines_dict["ETHUSDT"]
    /\ ~NoUsableSource(call.klines_dict, "BTCUSDT")
    /\ call.ret.updated_opportunities[2].vwap_valid
    /\ ~call.ret.updated_opportunities[1].vwap_valid
    /\ call.ret.stats.failure = 2
    /\ call.ret.stats.success = 1


-----------------------------------------------------------------------------
(* The engine reads its opportunities only *)

\* C22: from the entry of run_backtest to its return no step (a loop
\* iteration that accepts, one that refuses, the return) adds, removes or
\* changes an opportunity of the list or any of its fields
C22_OpportunitiesReadOnly ==
    [][pc = "loop" => opportunities' = opportunities]_vars

\* C22 witness: a run that has accepted one opportunity and refused another,
\* the refused one still carrying vwap_valid = True
C22_Witness ==
    /\ pc = "loop"
    /\ i = 2
    /\ calls_on_engine = 1
    /\ Len(trades) = 1
    /\ failed_trades = 1
    /\ opportunities[1].vwap_valid
    /\ loop_body(opportunities[1], config) = NoneVal
    /\ trades[1].symbol = opportunities[2].symbol


-----------------------------------------------------------------------------
(* Capital allocation by the loader *)

\* the opportunities a load returned for a timestamp
OppsAt(ts) ==
    LET At(o) == o.timestamp = ts IN SelectSeq(call.ret, At)

\* C23: every opportunity created for a timestamp with n tradable rows (the
\* rows of that timestamp the loader's filters keep, one opportunity each) has
\* K = initial_capital / n > 0, the opportunities of one timestamp share one K,
\* and their K sum to initial_capital
C23_EqualShares ==
    call.fn = "load_tradable_opportunities" =>
        \A k \in DOMAIN call.ret :
            LET opp == call.ret[k]
                n == Cardinality({j \in DOMAIN call.df_all :
                        /\ call.df_all[j].tradable
                        /\ call.df_all[j].timestamp = opp.timestamp
                        /\ call.df_all[j].timestamp \in call.config.start_ms..call.config.end_ms
                        /\ ~call.config.include_all => call.df_all[j].symbol \in call.config.symbol_whitelist
                        /\ call.df_all[j].symbol \notin call.config.exclude_symbols})
                same == OppsAt(opp.timestamp)
            IN  /\ n = Len(same)
                /\ opp.K = FDiv(call.config.initial_capital, Float(n, 1))
                /\ FLt(Zero, opp.K)
                /\ \A j \in DOMAIN same : same[j].K = opp.K
                /\ FSum([j \in DOMAIN same |-> same[j].K]) = call.config.initial_capital

\* C23 witness: three opportunities at one timestamp and one at the other,
\* with a tradable row of an excluded symbol left out
C23_Witness ==
    /\ call.fn = "load_tradable_opportunities"
    /\ Len(call.ret) = 3
    /\ call.config.exclude_symbols = {"ETHUSDT"}
    /\ \E j \in DOMAIN call.df_all :
          call.df_all[j].symbol = "ETHUSDT" /\ call.df_all[j].tradable
                                            /\ call.df_all[j].timestamp = 2 * MsPerHour
    /\ Len(OppsAt(2 * MsPerHour)) = 2
    /\ Len(OppsAt(MsPerHour)) = 1
    /\ call.ret[1].K = Float(100, 1)
    /\ call.ret[2].K = Float(50, 1)


-----------------------------------------------------------------------------
(* Completeness of a fetched candle series *)

-----------------------------------------------------------------------------
(* Partial failures of the concurrent fetch *)

\* C25: whatever the interleaving, when fetch_all_klines returns, every task
\* that returned a series or None has exactly that stored under
\* klines_dict[symbol][exchange], whatever the other tasks did, and every key
\* of klines_dict is one of the requested symbols
C25_FailuresAreLocal ==
    gather.pc = "returned" =>
        /\ \A k \in DOMAIN gather.task_info :
              gather.results[k].symbol # "None" =>
                 LET task == gather.task_info[k]
                 IN  /\ task.symbol \in DOMAIN gather.klines_dict
                     /\ task.exchange \in DOMAIN gather.klines_dict[task.symbol]
                     /\ gather.klines_dict[task.symbol][task.exchange] = gather.results[k].df
                     /\ gather.results[k].df \in {NoneVal, SeriesFor(task.symbol, task.exchange)}
        /\ \A key \in DOMAIN gather.klines_dict :
              \E k \in DOMAIN gather.tradable_symbols : gather.tradable_symbols[k] = key


-----------------------------------------------------------------------------
(* The counts a run returns *)

\* C26: for every call of run_backtest, total_trades + failed_trades of the
\* returned dict is the number of opportunities passed to the call, and
\* total_trades is the length of the returned trade log and of the returned
\* equity curve
C26_CountsAddUp ==
    \A k \in DOMAIN results :
        /\ results[k].ret.total_trades + results[k].ret.failed_trades
              = Len(results[k].opportunities)
        /\ results[k].ret.total_trades = Len(results[k].ret.trades)
        /\ results[k].ret.total_trades = Len(results[k].ret.equity_curve)


-----------------------------------------------------------------------------
(* The VWAP batch keeps its opportunities apart *)

\* C27: the batch returns one opportunity per input, in input order; the k-th
\* output keeps timestamp, symbol, K, rates and pay flags of the k-th input and
\* is what the batch returns for that opportunity alone with the candles of its
\* own symbol alone; success + failure = total and success counts the outputs
\* with vwap_valid = True
C27_OnePerInput ==
    call.fn = "calculate_vwaps_for_all_opportunities" =>
        LET out == call.ret.updated_opportunities
            stats == call.ret.stats
        IN  /\ Len(out) = Len(call.opportunities)
            /\ \A k \in DOMAIN out :
                  LET opp == call.opportunities[k]
                      own == [t \in DOMAIN call.klines_dict \cap {opp.symbol} |-> call.klines_dict[t]]
                      alone == calculate_vwaps_for_all_opportunities(<<opp>>, own,
                                                                     call.vwap_window_minutes)
                  IN  /\ out[k].timestamp = opp.timestamp
                      /\ out[k].symbol = opp.symbol
                      /\ out[k].K = opp.K
                      /\ out[k].bybit_rate = opp.bybit_rate
                      /\ out[k].binance_rate = opp.binance_rate
                      /\ out[k].bybit_pay = opp.bybit_pay
                      /\ out[k].binance_pay = opp.binance_pay
                      /\ out[k] = alone.updated_opportunities[1]
            /\ stats.total = Len(call.opportunities)
            /\ stats.success + stats.failure = stats.total
            /\ stats.success = Cardinality({k \in DOMAIN out : out[k].vwap_valid})

\* C27 witness: three opportunities of two symbols with different candles, the
\* first and the last of one symbol, all valid, with different entry VWAPs
C27_Witness ==
    /\ call.fn = "calculate_vwaps_for_all_opportunities"
    /\ Len(call.opportunities) = 3
    /\ call.opportunities[1].symbol = "ETHUSDT"
    /\ call.opportunities[2].symbol = "BTCUSDT"
    /\ call.opportunities[3].symbol = "ETHUSDT"
    /\ call.opportunities[1].timestamp # call.opportunities[3].timestamp
    /\ call.ret.stats.success = 3
    /\ call.ret.updated_opportunities[1].vwap_entry_binance
          # call.ret.updated_opportunities[2].vwap_entry_binance
    /\ call.ret.updated_opportunities[3].timestamp = call.opportunities[3].timestamp


-----------------------------------------------------------------------------
(* The periods the fetcher asks the exchange for *)

\* C28: no returned period starts before the listing time; without a cache
\* the result is the one period [max(required_start, listing_time),
\* required_end] of type 'full'; with a cache it holds at most one 'before'
\* period, ending at the cache start, and at most one 'after' period, starting
\* at the cache end, both outside the cache, and the cache together with the
\* periods covers [max(required_start, listing_time), required_end]
C28_MissingPeriods ==
    call.fn = "_calculate_missing_periods" =>
        LET periods == call.ret
            listed == call.listing_time_ms # NoneVal
            from == IF listed /\ call.listing_time_ms.some > call.required_start_ms
                    THEN call.listing_time_ms.some ELSE call.required_start_ms
            OfType(type) == {k \in DOMAIN periods : periods[k].type = type}
        IN  /\ \A k \in DOMAIN periods : listed => periods[k].start >= call.listing_time_ms.some
            /\ call.cached_start_ms = NoneVal =>
                  periods = <<[start |-> from, end |-> call.required_end_ms, type |-> "full"]>>
            /\ call.cached_start_ms # NoneVal =>
                  /\ OfType("full") = {}
                  /\ Cardinality(OfType("before")) <= 1
                  /\ Cardinality(OfType("after")) <= 1
                  /\ \A k \in OfType("before") :
                        periods[k].start < periods[k].end /\ periods[k].end = call.cached_start_ms.some
                  /\ \A k \in OfType("after") :
                        periods[k].start < periods[k].end /\ periods[k].start = call.cached_end_ms.some
                  /\ \A m \in GridMinutes :
                        from <= m * MsPerMinute /\ m * MsPerMinute <= call.required_end_ms =>
                          \/ /\ call.cached_start_ms.some <= m * MsPerMinute
                             /\ m * MsPerMinute <= call.cached_end_ms.some
                          \/ \E k \in DOMAIN periods :
                                periods[k].start <= m * MsPerMinute /\ m * MsPerMinute <= periods[k].end


-----------------------------------------------------------------------------
(* Termination of fetch_with_retry *)

\* C29: a call of fetch_with_retry returns; it makes at most max_retries
\* requests; it returns the body exactly when its last request answered 200;
\* every request before the last ended in 429, a timeout or another exception
\* and was followed by a wait; another status ends the call with None at once;
\* and None after retried failures means max_retries attempts were used
C29_RetryTerminates ==
    /\ (retry.pc = "loop") ~> (retry.pc = "returned")
    /\ [](retry.pc # "idle" => Len(retry.answers) <= retry.max_retries)
    /\ [](retry.pc = "returned" =>
            LET n == Len(retry.answers)
                retried == {"429", "timeout", "exception"}
            IN  /\ (retry.ret # NoneVal) = (n > 0 /\ retry.answers[n] = "200")
                /\ \A k \in 1..(n - 1) : retry.answers[k] \in retried
                /\ retry.sleeps >= n - 1
                /\ (n > 0 /\ retry.answers[n] = "other_status") => retry.ret = NoneVal
                /\ (n = 0 \/ retry.answers[n] \in retried) =>
                      retry.ret = NoneVal /\ n = retry.max_retries)

\* C29 witness: a rate limit, then a timeout, then the body on the third request
C29_Witness ==
    /\ retry.pc = "returned"
    /\ retry.max_retries = 3
    /\ retry.answers = <<"429", "timeout", "200">>
    /\ retry.sleeps = 2
    /\ retry.ret = [json |-> "body"]


-----------------------------------------------------------------------------
(* Symmetries of the price P&L *)

\* calculate_price_pnl in a direction on the prices and position size of the last call
PricePnlIn(direction) ==
    calculate_price_pnl(direction, call.vwap_entry_bn, call.vwap_exit_bn,
                        call.vwap_entry_by, call.vwap_exit_by, call.position_size)

\* C30: on the same four VWAPs and position size, long bybit / short binance
\* gives the negation of short bybit / long binance and the same as short
\* binance / long bybit, short bybit / long binance gives the same as long
\* binance / short bybit, and when both exchanges make the same relative move
\* (also at different price levels) the price P&L is 0 in every direction
C30_Antisymmetric ==
    (call.fn = "calculate_pnl" /\ call.vwap_entry_bn # Zero /\ call.vwap_entry_by # Zero) =>
        /\ PricePnlIn(LONG_BYBIT_SHORT_BINANCE) = FNeg(PricePnlIn(SHORT_BYBIT_LONG_BINANCE))
        /\ PricePnlIn(LONG_BYBIT_SHORT_BINANCE) = PricePnlIn(SHORT_BINANCE_LONG_BYBIT)
        /\ PricePnlIn(SHORT_BYBIT_LONG_BINANCE) = PricePnlIn(LONG_BINANCE_SHORT_BYBIT)
        /\ call.ret.price_pnl = PricePnlIn(call.direction)
        /\ FMul(call.vwap_exit_bn, call.vwap_entry_by) = FMul(call.vwap_exit_by, call.vwap_entry_bn)
              => call.ret.price_pnl = Zero
        /\ \A direction \in TradeDirection :
              calculate_price_pnl(direction, call.vwap_entry_bn, call.vwap_exit_bn,
                                  FDiv(call.vwap_entry_bn, Float(2, 1)),
                                  FDiv(call.vwap_exit_bn, Float(2, 1)), call.position_size) = Zero

\* C30 witness: binance 100 -> 101 and bybit 101 -> 100 at position size 5000:
\* short bybit / long binance gains on both legs, the opposite direction loses
\* the same amount
C30_Witness ==
    /\ call.fn = "calculate_pnl"
    /\ call.direction = SHORT_BYBIT_LONG_BINANCE
    /\ call.vwap_entry_bn = Float(100, 1)
    /\ call.vwap_exit_bn = Float(101, 1)
    /\ call.vwap_entry_by = Float(101, 1)
    /\ call.vwap_exit_by = Float(100, 1)
    /\ call.position_size = Float(5000, 1)
    /\ call.ret.price_pnl = FAdd(Float(50, 1), Float(5000, 101))
    /\ PricePnlIn(LONG_BYBIT_SHORT_BINANCE) = FNeg(call.ret.price_pnl)

=============================================================================
